---- MODULE Spec2Model ----
(***************************************************************************)
(* A model of the robo-advisor experiment platform: the recommendation     *)
(* engine of config/loader.py (get_risk_recommendation,                    *)
(* adjust_recommendation), and, of app.py, the session's page flow and the *)
(* Monte Carlo simulator (simulate_returns).                               *)
(*                                                                         *)
(* Numbers.  Python floats are modelled as exact rationals <<n, d>> in     *)
(* lowest terms with d > 0; the properties below are those of the exact    *)
(* arithmetic the code writes down, not of IEEE rounding.                  *)
(*                                                                         *)
(* Names.  The Chinese keys of the source are written in ASCII:            *)
(*   股票 Stocks, 债券 Bonds, 现金 Cash, 房地产 RealEstate, 黄金 Gold,     *)
(*   货币市场 MoneyMarket, 大宗商品 Commodities,                           *)
(*   风险资产 RiskAssets, 安全资产 SafeAssets, 控制组 ControlGroup,        *)
(*   风险厌恶 risk_aversion, 损失厌恶 loss_aversion, 心理账户              *)
(*   mental_accounting, 过度自信 overconfidence, 收益目标 return_target,   *)
(*   投资期限 horizon, 高 high, 低 low,                                    *)
(*   风险资产_下调 RiskAssets_down, 风险资产_上调 RiskAssets_up,           *)
(*   安全资产_下调 SafeAssets_down, 安全资产_上调 SafeAssets_up,           *)
(*   分散度_提高 diversify_up, 心理账户_高 mental_accounting_high,         *)
(*   损失厌恶_高 loss_aversion_high.                                       *)
(***************************************************************************)
EXTENDS Integers, Sequences, FiniteSets, TLC

\* ---------------------------------------------------------------- rationals

RECURSIVE GCD(_, _)
GCD(a, b) == IF b = 0 THEN a ELSE GCD(b, a % b)

Abs(n) == IF n < 0 THEN -n ELSE n

\* n/d in lowest terms, d > 0
Rat(n, d) ==
    LET g == GCD(Abs(n), Abs(d))
        s == IF d < 0 THEN -1 ELSE 1
    IN  <<(s * n) \div g, (s * d) \div g>>

Int2Rat(n) == <<n, 1>>
\* sums and differences over the least common denominator
LCM(a, b) == (a \div GCD(a, b)) * b
RAdd(x, y) ==
    LET l == LCM(x[2], y[2])
    IN  Rat(x[1] * (l \div x[2]) + y[1] * (l \div y[2]), l)
RSub(x, y) ==
    LET l == LCM(x[2], y[2])
    IN  Rat(x[1] * (l \div x[2]) - y[1] * (l \div y[2]), l)
RMul(x, y) == Rat(x[1] * y[1], x[2] * y[2])
\* defined for y # 0 only: the callers guard it as the code does
RDiv(x, y) == Rat(x[1] * y[2], x[2] * y[1])
RLt(x, y) == x[1] * y[2] < y[1] * x[2]
RLe(x, y) == x[1] * y[2] <= y[1] * x[2]
RMax(x, y) == IF RLt(x, y) THEN y ELSE x
RMin(x, y) == IF RLt(y, x) THEN y ELSE x

\* Python's sum() over the values of a dict f
RECURSIVE SumOver(_, _)
SumOver(f, keys) ==
    IF keys = {} THEN <<0, 1>>
    ELSE LET k == CHOOSE x \in keys : TRUE
         IN  RAdd(f[k], SumOver(f, keys \ {k}))

DictSum(f) == SumOver(f, DOMAIN f)

\* ---------------------------------------------------------------- dicts

\* the empty dict
EmptyDict == <<>>

\* a Python value that is either a str or a number
StrVal(s) == [t |-> "str", v |-> s]
NumVal(n) == [t |-> "num", v |-> n]

\* Python's ==  between two such values: a number never equals a str
PyEq(a, b) == a.t = b.t /\ a.v = b.v

\* Python's f"{x}" of such a value
Format(a) == IF a.t = "str" THEN a.v ELSE ToString(a.v)

\* dict.get(key, default)
DictGet(d, key, default) == IF key \in DOMAIN d THEN d[key] ELSE default

\* ---------------------------------------------------------------- configuration

Zero == <<0, 1>>
One == <<1, 1>>
Pct(n) == Rat(n, 100)

\* config/defaults.py DEFAULT_RISK_RECOMMENDATIONS
DEFAULT_RISK_RECOMMENDATIONS ==
    [very_conservative |->
        [Stocks |-> Pct(10), Bonds |-> Pct(50), Cash |-> Pct(30),
         RealEstate |-> Pct(5), Gold |-> Pct(5)],
     conservative |->
        [Stocks |-> Pct(25), Bonds |-> Pct(45), Cash |-> Pct(15),
         RealEstate |-> Pct(10), Gold |-> Pct(5)],
     moderate |->
        [Stocks |-> Pct(40), Bonds |-> Pct(30), Cash |-> Pct(5),
         RealEstate |-> Pct(15), Gold |-> Pct(10)],
     aggressive |->
        [Stocks |-> Pct(60), Bonds |-> Pct(15), Cash |-> Pct(5),
         RealEstate |-> Pct(15), Gold |-> Pct(5)],
     very_aggressive |->
        [Stocks |-> Pct(75), Bonds |-> Pct(5), Cash |-> Pct(0),
         RealEstate |-> Pct(15), Gold |-> Pct(5)]]

\* the fallback of get_asset_risk_categories
DEFAULT_ASSET_RISK_CATEGORIES ==
    [RiskAssets |-> <<"Stocks", "Commodities">>,
     SafeAssets |-> <<"Bonds", "MoneyMarket", "RealEstate">>]

\* ---------------------------------------------------------------- get_risk_recommendation

\* the if/elif chain of get_risk_recommendation: the band a score falls in
RiskBand_le(risk_score) ==
    IF RLe(risk_score, Int2Rat(20)) THEN "very_conservative"
    ELSE IF RLe(risk_score, Int2Rat(40)) THEN "conservative"
    ELSE IF RLe(risk_score, Int2Rat(60)) THEN "moderate"
    ELSE IF RLe(risk_score, Int2Rat(80)) THEN "aggressive"
    ELSE "very_aggressive"

RiskBand(risk_score) ==
    IF RLt(risk_score, Int2Rat(20)) THEN "very_conservative"
    ELSE IF RLt(risk_score, Int2Rat(40)) THEN "conservative"
    ELSE IF RLt(risk_score, Int2Rat(60)) THEN "moderate"
    ELSE IF RLt(risk_score, Int2Rat(80)) THEN "aggressive"
    ELSE "very_aggressive"

\* the preset a band name stands for: the configuration's, else the default
PresetOf(cfg, band) ==
    DictGet(DictGet(cfg, "risk_recommendations", DEFAULT_RISK_RECOMMENDATIONS),
            band, DEFAULT_RISK_RECOMMENDATIONS[band])

get_risk_recommendation(cfg, risk_score) == PresetOf(cfg, RiskBand(risk_score))

\* ---------------------------------------------------------------- get_risk_category

\* config/defaults.py DEFAULT_RISK_CATEGORIES, in the order of the dict
DEFAULT_RISK_CATEGORIES ==
    <<<<"very_conservative", [max_score |-> 20, name |-> "VeryConservativeType"]>>,
      <<"conservative", [max_score |-> 40, name |-> "ConservativeType"]>>,
      <<"moderate", [max_score |-> 60, name |-> "BalancedType"]>>,
      <<"aggressive", [max_score |-> 80, name |-> "GrowthType"]>>,
      <<"very_aggressive", [max_score |-> 100, name |-> "AggressiveType"]>>>>

\* risk_categories[category] of an ordered dict
CategoryInfo(risk_categories, category) ==
    risk_categories[CHOOSE i \in DOMAIN risk_categories :
                        risk_categories[i][1] = category][2]

\* get_risk_category: what the loop falls through to
FallThroughName == CategoryInfo(DEFAULT_RISK_CATEGORIES, "very_aggressive").name

\* get_risk_category: the name of the first category, in the order of the
\* dict, whose max_score the score is below
get_risk_category(cfg, risk_score) ==
    LET risk_categories == DictGet(cfg, "risk_categories", DEFAULT_RISK_CATEGORIES)
        below == {i \in DOMAIN risk_categories :
                     RLt(risk_score,
                         Int2Rat(DictGet(risk_categories[i][2], "max_score", 100)))}
    IN  IF below # {}
        THEN DictGet(risk_categories[CHOOSE i \in below : \A j \in below : i <= j][2],
                     "name", "UnknownType")
        ELSE FallThroughName

\* ---------------------------------------------------------------- adjust_recommendation

get_asset_risk_categories(cfg) ==
    DictGet(cfg, "asset_risk_categories", DEFAULT_ASSET_RISK_CATEGORIES)

\* the early return of adjust_recommendation:
\*   experiment_group.get("name") == "控制组" or not experiment_group.get("adjustment")
\* (the variant: the name alone looked at)
ReturnsBaselineItself_named(experiment_group) ==
    DictGet(experiment_group, "name", "None") = "ControlGroup"

ReturnsBaselineItself(experiment_group) ==
    \/ DictGet(experiment_group, "name", "None") = "ControlGroup"
    \/ DOMAIN DictGet(experiment_group, "adjustment", EmptyDict) = {}

\* one iteration of a "for asset in <group>: if asset in adjusted: ..." loop
\* (the variant: an asset the allocation lacks shifted from 0)
ShiftAsset_added(adjusted, asset, delta, up) ==
    IF asset \in DOMAIN adjusted
    THEN [adjusted EXCEPT ![asset] =
            IF up THEN RMin(One, RAdd(@, delta)) ELSE RMax(Zero, RSub(@, delta))]
    ELSE (asset :> (IF up THEN RMin(One, delta) ELSE Zero)) @@ adjusted

ShiftAsset(adjusted, asset, delta, up) ==
    IF asset \in DOMAIN adjusted
    THEN [adjusted EXCEPT ![asset] =
            IF up THEN RMin(One, RAdd(@, delta)) ELSE RMax(Zero, RSub(@, delta))]
    ELSE adjusted

\* the entries of a list
Range(seq) == {seq[i] : i \in 1..Len(seq)}

\* the loop with the shift divided by the number of the group's assets that the
\* allocation holds, not by the length of the group's list
RECURSIVE ShiftLoop_present(_, _, _, _, _)
ShiftLoop_present(adjusted, group, i, factor, up) ==
    IF i > Len(group) THEN adjusted
    ELSE ShiftLoop_present(
             ShiftAsset(adjusted, group[i],
                        RDiv(factor, Int2Rat(Cardinality(Range(group) \cap DOMAIN adjusted))),
                        up),
             group, i + 1, factor, up)

\* the loop over the group's list, from its i-th entry on; the divisor is the
\* length of the list, evaluated in the loop body as the code does
RECURSIVE ShiftLoop(_, _, _, _, _)
ShiftLoop(adjusted, group, i, factor, up) ==
    IF i > Len(group) THEN adjusted
    ELSE ShiftLoop(ShiftAsset(adjusted, group[i],
                              RDiv(factor, Int2Rat(Len(group))), up),
                   group, i + 1, factor, up)

\* "if <key> in rule: factor = rule[<key>]; for asset in <group>: ..."
ApplyShift(adjusted, rule, key, group, up) ==
    IF key \in DOMAIN rule
    THEN ShiftLoop(adjusted, group, 1, rule[key], up)
    ELSE adjusted

\* the accommodate branch
Accommodate(adjusted, adjustments, behavior_answers, risk_assets, safe_assets) ==
    LET risk_aversion == DictGet(behavior_answers, "risk_aversion", StrVal("low"))
        key == "risk_aversion_" \o Format(risk_aversion)
    IN  IF key \in DOMAIN adjustments
        THEN LET rule == adjustments[key]
                 a1 == ApplyShift(adjusted, rule, "RiskAssets_down", risk_assets, FALSE)
                 a2 == ApplyShift(a1, rule, "RiskAssets_up", risk_assets, TRUE)
                 a3 == ApplyShift(a2, rule, "SafeAssets_down", safe_assets, FALSE)
                 a4 == ApplyShift(a3, rule, "SafeAssets_up", safe_assets, TRUE)
             IN  a4
        ELSE adjusted

\* "avg_allocation = sum(adjusted.values()) / len(adjusted)" and the loop after
\* it (the variant: the sum divided by the number of assets of the catalogue)
Blend_catalogue(adjusted, factor) ==
    LET avg_allocation == RDiv(DictSum(adjusted), Int2Rat(5))
    IN  [asset \in DOMAIN adjusted |->
            RAdd(RMul(adjusted[asset], RSub(One, factor)), RMul(avg_allocation, factor))]

Blend(adjusted, factor) ==
    LET avg_allocation == RDiv(DictSum(adjusted), Int2Rat(Cardinality(DOMAIN adjusted)))
    IN  [asset \in DOMAIN adjusted |->
            RAdd(RMul(adjusted[asset], RSub(One, factor)), RMul(avg_allocation, factor))]

\* behavior_answers.get(<dimension>) == "高"
AnswerIsHigh(behavior_answers, dimension) ==
    /\ dimension \in DOMAIN behavior_answers
    /\ PyEq(behavior_answers[dimension], StrVal("high"))

\* the educate branch: the mental-accounting rule, then the loss-aversion rule
Educate(adjusted, adjustments, behavior_answers, risk_assets, safe_assets) ==
    LET b1 == IF /\ "mental_accounting_high" \in DOMAIN adjustments
                 /\ AnswerIsHigh(behavior_answers, "mental_accounting")
                 /\ "diversify_up" \in DOMAIN adjustments["mental_accounting_high"]
              THEN Blend(adjusted, adjustments["mental_accounting_high"]["diversify_up"])
              ELSE adjusted
        b2 == IF /\ "loss_aversion_high" \in DOMAIN adjustments
                 /\ AnswerIsHigh(behavior_answers, "loss_aversion")
              THEN LET rule == adjustments["loss_aversion_high"]
                       c1 == ApplyShift(b1, rule, "RiskAssets_up", risk_assets, TRUE)
                       c2 == ApplyShift(c1, rule, "SafeAssets_down", safe_assets, FALSE)
                   IN  c2
              ELSE b1
    IN  b2

\* the dict "adjusted" when line 364 is reached: the copy of the baseline after
\* the strategy's branch, before normalization
AdjustedBeforeNormalization(recommended, experiment_group, behavior_answers, cfg) ==
    LET asset_categories == get_asset_risk_categories(cfg)
        risk_assets == DictGet(asset_categories, "RiskAssets", <<>>)
        safe_assets == DictGet(asset_categories, "SafeAssets", <<>>)
        adjustments == DictGet(experiment_group, "adjustment", EmptyDict)
        strategy == DictGet(experiment_group, "recommendation_strategy", "standard")
    IN  IF strategy = "accommodate"
        THEN Accommodate(recommended, adjustments, behavior_answers, risk_assets, safe_assets)
        ELSE IF strategy = "educate"
        THEN Educate(recommended, adjustments, behavior_answers, risk_assets, safe_assets)
        ELSE recommended

\* the guard of the normalization, "if total > 0:" (the variants: the division
\* done whatever the total, and the division never done)
DividesByTotal_always(total) == TRUE

DividesByTotal_never(total) == FALSE

DividesByTotal(total) == RLt(Zero, total)

\* "total = sum(adjusted.values()); if total > 0: adjusted[asset] /= total":
\* the dict after it, and the exception Python raises on a division by zero
Normalize(adjusted) ==
    LET total == DictSum(adjusted)
    IN  IF DividesByTotal(total)
        THEN IF total = Zero
             THEN [raised |-> "ZeroDivisionError", value |-> adjusted]
             ELSE [raised |-> "none",
                   value |-> [asset \in DOMAIN adjusted |-> RDiv(adjusted[asset], total)]]
        ELSE [raised |-> "none", value |-> adjusted]

\* the object that "adjusted" names: copy.deepcopy makes a fresh one
\* (the variant is the alias "adjusted = recommended_allocation")
CopyTarget_alias(recommended_ref, fresh_ref) == recommended_ref

CopyTarget(recommended_ref, fresh_ref) == fresh_ref

\* the next unused object identity of a heap
FreshRef(h) == CHOOSE n \in 1..(Cardinality(DOMAIN h) + 1) : n \notin DOMAIN h /\ \A m \in 1..(n - 1) : m \in DOMAIN h

NoRef == 0
NoDict == EmptyDict

\* "return recommended_allocation" of the early return (the variant: the
\* initial allocation returned)
EarlyResult_initial(initial_allocation, recommended_allocation) == initial_allocation

EarlyResult(initial_allocation, recommended_allocation) == recommended_allocation

\* The whole of adjust_recommendation on the objects of heap h: the heap after
\* it, the object returned (ref) or the exception raised, and the local
\* "adjusted" as it stood when the normalization was reached.
adjust_recommendation(h, cfg, initial_allocation, recommended_allocation, experiment_group, behavior_answers) ==
    IF ReturnsBaselineItself(experiment_group)
    THEN [heap |-> h, raised |-> "none",
          ref |-> EarlyResult(initial_allocation, recommended_allocation),
          adjusted |-> NoDict]
    ELSE LET target == CopyTarget(recommended_allocation, FreshRef(h))
             before == AdjustedBeforeNormalization(
                           h[recommended_allocation], experiment_group,
                           behavior_answers, cfg)
             after == Normalize(before)
         IN  [heap |-> (target :> after.value) @@ h,
              raised |-> after.raised,
              ref |-> IF after.raised = "none" THEN target ELSE NoRef,
              adjusted |-> before]

\* ---------------------------------------------------------------- state

VARIABLES
    heap,        \* the allocation dicts alive, by object identity
    config,      \* what load_config() returns
    call,        \* the arguments of the adjust_recommendation call under way
    adjusted,    \* its local "adjusted" when the normalization is reached
    returned,    \* what it returned: the object, or the exception raised
    pc,          \* "call" before the call, "returned" after it
    rng_stream,  \* the draws numpy's generator yields once seeded with 42
    rng_pos,     \* how many of them the process-wide generator has handed out
    runs,        \* the simulate_returns calls finished, in order: arguments, result
    frames,      \* the locals of the simulate_returns calls, by thread
    \* st.session_state
    page,
    risk_score,
    initial_allocation,
    recommended_allocation,
    final_allocation,
    behavior_scores,
    finance_quiz_correct,
    behavior_quiz_step,
    financial_personality,
    experiment_group,
    real_account_linked,
    survey_submitted,
    personal_info,   \* whether the questionnaire's form has filled it in
    \* the widgets of the page as the last script run drew it
    continue_shown   \* whether the link page shows its continue button

callVars == <<call, adjusted, returned, pc, rng_stream, rng_pos, runs, frames>>

sessionVars == <<page, risk_score, initial_allocation, recommended_allocation, final_allocation, behavior_scores, finance_quiz_correct, behavior_quiz_step, financial_personality, experiment_group, real_account_linked, survey_submitted, personal_info, continue_shown>>

vars == <<heap, config, callVars, sessionVars>>

\* the session state the script sets up when a key is missing (app.py 144-187);
\* financial_personality = None is the personality without a key
NoPersonality == <<>>

FreshSessionScores ==
    [return_target |-> 0, horizon |-> 0, risk_aversion |-> 0,
     loss_aversion |-> 0, mental_accounting |-> 0, overconfidence |-> 0]

SessionDefaults ==
    /\ page = 0
    /\ risk_score = Zero
    /\ initial_allocation = NoRef
    /\ recommended_allocation = NoRef
    /\ final_allocation = NoRef
    /\ behavior_scores = FreshSessionScores
    /\ finance_quiz_correct = 0
    /\ behavior_quiz_step = 1
    /\ financial_personality = NoPersonality
    /\ experiment_group = "control"
    /\ real_account_linked = FALSE
    /\ survey_submitted = FALSE
    /\ personal_info = FALSE
    /\ continue_shown = FALSE

\* no generator stream looked at
NoStream == <<>>

\* no simulation made or under way
NoSimulation ==
    /\ rng_pos = 0
    /\ runs = <<>>
    /\ frames = <<>>

\* no call of a function on its own under way
CallIdle ==
    /\ pc = "idle"
    /\ call = EmptyDict
    /\ adjusted = NoDict
    /\ returned = [raised |-> "none", ref |-> NoRef]
    /\ rng_stream = NoStream
    /\ NoSimulation

\* ---------------------------------------------------------------- the inputs of a call

\* the fractions a rule may configure: k/FactorSteps, k in 1..FactorSteps
FactorSteps == 2

Factors == {Rat(k, FactorSteps) : k \in 1..FactorSteps}

\* the dicts with keys among `keys` (any subset) and values in `values`
Dicts(keys, values) == UNION {[d -> values] : d \in SUBSET keys}

AccommodateRules ==
    Dicts({"RiskAssets_down", "RiskAssets_up", "SafeAssets_down", "SafeAssets_up"}, Factors)

MentalAccountingRules == Dicts({"diversify_up"}, Factors)

LossAversionRules == Dicts({"RiskAssets_up", "SafeAssets_down"}, Factors)

AccommodateTables ==
    {k :> r : k \in {"risk_aversion_high", "risk_aversion_low"}, r \in AccommodateRules}

EducateTables ==
    {("mental_accounting_high" :> m) : m \in MentalAccountingRules}
    \cup {("loss_aversion_high" :> l) : l \in LossAversionRules}
    \cup {("mental_accounting_high" :> m) @@ ("loss_aversion_high" :> l) :
             m \in MentalAccountingRules, l \in LossAversionRules}

SampleAccommodateTable ==
    "risk_aversion_high" :> [RiskAssets_down |-> Rat(1, 2), SafeAssets_up |-> Rat(1, 2)]

SampleEducateTable ==
    "mental_accounting_high" :> [diversify_up |-> Rat(1, 2)]

\* experiment groups as (group, behaviour answers) pairs, by strategy
LevelAnswers == {StrVal("high"), StrVal("low")}

StandardInputs ==
    {<<g, a>> :
        g \in {[name |-> n, recommendation_strategy |-> "standard", adjustment |-> t] :
                  n \in {"ControlGroup", "GroupB"},
                  t \in {EmptyDict, SampleAccommodateTable, SampleEducateTable}}
              \cup {[name |-> "GroupB", adjustment |-> SampleAccommodateTable],
                    [name |-> "GroupB", recommendation_strategy |-> "standard"],
                    [recommendation_strategy |-> "standard",
                     adjustment |-> SampleEducateTable]},
        a \in {[risk_aversion |-> StrVal("high"), mental_accounting |-> StrVal("high"),
                loss_aversion |-> StrVal("high")]}}

AccommodateInputs ==
    {<<g, a>> :
        g \in {[name |-> "GroupB", recommendation_strategy |-> "accommodate",
                adjustment |-> t] : t \in AccommodateTables}
              \cup {[name |-> "ControlGroup", recommendation_strategy |-> "accommodate",
                     adjustment |-> SampleAccommodateTable],
                    [name |-> "GroupB", recommendation_strategy |-> "accommodate",
                     adjustment |-> EmptyDict]},
        a \in {[risk_aversion |-> v] : v \in LevelAnswers \cup {NumVal(80)}}
              \cup {EmptyDict}}

EducateInputs ==
    {<<g, a>> :
        g \in {[name |-> "GroupC", recommendation_strategy |-> "educate",
                adjustment |-> t] : t \in EducateTables},
        a \in {[mental_accounting |-> m, loss_aversion |-> l] :
                  m \in LevelAnswers, l \in LevelAnswers}
              \cup {[mental_accounting |-> NumVal(80), loss_aversion |-> NumVal(100)],
                    EmptyDict}}

CallInputs == StandardInputs \cup AccommodateInputs \cup EducateInputs

\* baselines: presets of the defaults, an allocation over the asset names of
\* the category lists, concentrated and partial allocations, and one with a
\* weight above 1
Baselines ==
    {DEFAULT_RISK_RECOMMENDATIONS["very_conservative"],
     DEFAULT_RISK_RECOMMENDATIONS["moderate"],
     DEFAULT_RISK_RECOMMENDATIONS["very_aggressive"],
     [Stocks |-> Pct(40), Bonds |-> Pct(20), MoneyMarket |-> Pct(10),
      RealEstate |-> Pct(20), Commodities |-> Pct(10)],
     [Stocks |-> Pct(50), Commodities |-> Pct(50)],
     [Stocks |-> Pct(90), Bonds |-> Pct(10)],
     [Stocks |-> Pct(30), Bonds |-> Pct(30), Cash |-> Pct(20)],
     [Stocks |-> Pct(150), Bonds |-> Pct(0)]}

EqualWeights ==
    [Stocks |-> Pct(20), Bonds |-> Pct(20), Cash |-> Pct(20),
     RealEstate |-> Pct(20), Gold |-> Pct(20)]

\* configurations: none of the keys set (the in-code fallbacks apply), and one
\* with its own category lists, the safe list missing
Configs ==
    {EmptyDict,
     [asset_risk_categories |-> [RiskAssets |-> <<"Stocks", "Gold", "RealEstate">>]]}

\* ---------------------------------------------------------------- SpecAdjust

\* A call of adjust_recommendation about to be made: the initial allocation is
\* an object of its own, or (as generate_recommendation hands it over for the
\* control group) the very object passed as the baseline.
InitAdjust ==
    /\ SessionDefaults
    /\ pc = "call"
    /\ config \in Configs
    /\ adjusted = NoDict
    /\ returned = [raised |-> "none", ref |-> NoRef]
    /\ rng_stream = NoStream
    /\ NoSimulation
    /\ \E b \in Baselines, in \in CallInputs, shared \in BOOLEAN :
          /\ heap = IF shared THEN (1 :> b) ELSE (1 :> EqualWeights) @@ (2 :> b)
          /\ call = [initial_allocation |-> 1,
                     recommended_allocation |-> IF shared THEN 1 ELSE 2,
                     experiment_group |-> in[1],
                     behavior_answers |-> in[2]]

CallAdjust ==
    /\ pc = "call"
    /\ pc' = "returned"
    /\ LET r == adjust_recommendation(heap, config, call.initial_allocation,
                                      call.recommended_allocation,
                                      call.experiment_group, call.behavior_answers)
       IN  /\ heap' = r.heap
           /\ adjusted' = r.adjusted
           /\ returned' = [raised |-> r.raised, ref |-> r.ref]
    /\ UNCHANGED <<config, call, rng_stream, rng_pos, runs, frames, sessionVars>>

NextAdjust == CallAdjust

SpecAdjust == InitAdjust /\ [][NextAdjust]_vars

\* ---------------------------------------------------------------- claims on adjust_recommendation

Returned == pc = "returned"

\* the baseline of the call, the group it was made for, and whether the call
\* took the early return
Baseline == heap[call.recommended_allocation]
Group == call.experiment_group
Early == ReturnsBaselineItself(Group)
Strategy == DictGet(Group, "recommendation_strategy", "standard")
Table == DictGet(Group, "adjustment", EmptyDict)

\* C2 (as amended): the returned weights sum to exactly 1 whenever the call
\* normalizes, that is when the group is not named ControlGroup, has a
\* non-empty adjustment table and the adjusted weights have a positive total;
\* on the early return the sum is the baseline's, and a zero total stays zero.
C2_SumIsOneWhenNormalized ==
    Returned =>
        /\ returned.raised = "none"
        /\ Early => DictSum(heap[returned.ref]) = DictSum(Baseline)
        /\ (~Early /\ RLt(Zero, DictSum(adjusted))) => DictSum(heap[returned.ref]) = One
        /\ (~Early /\ DictSum(adjusted) = Zero) => DictSum(heap[returned.ref]) = Zero

\* C2 witness: an adjustment that changed the total of the weights was
\* normalized back to 1
C2_Witness ==
    /\ Returned /\ ~Early
    /\ RLt(Zero, DictSum(adjusted))
    /\ DictSum(adjusted) # One
    /\ DictSum(heap[returned.ref]) = One

\* C2 as stated: for a baseline summing to 1, whatever the group, the rule
\* table and the answers, the returned weights sum to exactly 1
C2_Original ==
    (Returned /\ DictSum(Baseline) = One) =>
        /\ returned.raised = "none"
        /\ DictSum(heap[returned.ref]) = One

\* C3: the call leaves the initial and the baseline allocation as they were
C3_InputsNotMutated ==
    [][(pc = "call" /\ pc' = "returned") =>
          /\ heap'[call.initial_allocation] = heap[call.initial_allocation]
          /\ heap'[call.recommended_allocation] = heap[call.recommended_allocation]]_vars

\* C3 witness: a rule fired and the adjusted weights differ from the baseline's
C3_Witness ==
    /\ Returned /\ ~Early
    /\ returned.raised = "none"
    /\ \E asset \in DOMAIN Baseline : adjusted[asset] # Baseline[asset]
    /\ heap[returned.ref] # Baseline

\* C4 (as amended): the returned allocation is a new object, distinct from the
\* initial and the baseline allocation, whenever the group is not named
\* ControlGroup and has a non-empty adjustment table; on the early return it
\* is the baseline object itself.
C4_NewObjectUnlessEarlyReturn ==
    Returned =>
        /\ returned.raised = "none"
        /\ Early => returned.ref = call.recommended_allocation
        /\ ~Early => /\ returned.ref # call.initial_allocation
                     /\ returned.ref # call.recommended_allocation

\* C4 witness: an adjusting call returned an object other than its two inputs
C4_Witness ==
    /\ Returned /\ ~Early
    /\ returned.ref \notin {NoRef, call.initial_allocation, call.recommended_allocation}
    /\ call.initial_allocation # call.recommended_allocation

\* C4 as stated: the returned allocation is never the initial nor the baseline
\* object, for every group, the control group included
C4_Original ==
    Returned =>
        /\ returned.ref # call.initial_allocation
        /\ returned.ref # call.recommended_allocation

\* the baseline divided by its total when that is positive, stated weight by
\* weight without a division: result * total = baseline
IsNormalizationOf(result, baseline) ==
    /\ DOMAIN result = DOMAIN baseline
    /\ \A asset \in DOMAIN baseline :
          IF RLt(Zero, DictSum(baseline))
          THEN RMul(result[asset], DictSum(baseline)) = baseline[asset]
          ELSE result[asset] = baseline[asset]

\* C5 (as amended): with the strategy standard the call returns the baseline
\* itself when the group is named ControlGroup or has no adjustment table, and
\* otherwise the baseline divided by its total: the baseline's weights
\* unchanged exactly when they sum to 1 (or to 0).
C5_StandardReturnsNormalizedBaseline ==
    (Returned /\ Strategy = "standard") =>
        /\ returned.raised = "none"
        /\ Early => returned.ref = call.recommended_allocation
        /\ ~Early => IsNormalizationOf(heap[returned.ref], Baseline)
        /\ DictSum(Baseline) = One => heap[returned.ref] = Baseline

\* C5 witness: a standard-strategy group with a non-empty table, not named
\* ControlGroup, and a baseline summing to 1 returned weight for weight
C5_Witness ==
    /\ Returned /\ Strategy = "standard" /\ ~Early
    /\ DictSum(Baseline) = One
    /\ returned.ref # call.recommended_allocation
    /\ heap[returned.ref] = Baseline

\* C5 as stated: with the strategy standard the baseline comes back unchanged,
\* weight for weight, whatever the adjustment table contains
C5_Original ==
    (Returned /\ Strategy = "standard") =>
        /\ returned.raised = "none"
        /\ heap[returned.ref] = Baseline

\* the risk-aversion level of the answers ("low" when there is none) names a
\* rule of the table
AccommodateRuleOf(level) == "risk_aversion_" \o level

MatchedLevels ==
    {level \in {"high", "low"} :
        /\ PyEq(DictGet(call.behavior_answers, "risk_aversion", StrVal("low")),
                StrVal(level))
        /\ AccommodateRuleOf(level) \in DOMAIN Table}

\* one configured shift on one weight: shift / (length of the group's list),
\* downward not below 0, upward not above 1, for an asset of the list only
ShiftedWeight(w, asset, rule, key, list, up) ==
    IF key \in DOMAIN rule /\ asset \in Range(list)
    THEN LET delta == RDiv(rule[key], Int2Rat(Len(list)))
         IN  IF up
             THEN (IF RLt(One, RAdd(w, delta)) THEN One ELSE RAdd(w, delta))
             ELSE (IF RLt(RSub(w, delta), Zero) THEN Zero ELSE RSub(w, delta))
    ELSE w

\* the four shifts of a rule on one weight of a baseline
AccommodatedWeightOf(cfg, baseline, asset, rule) ==
    LET cats == get_asset_risk_categories(cfg)
        risk == DictGet(cats, "RiskAssets", <<>>)
        safe == DictGet(cats, "SafeAssets", <<>>)
        w1 == ShiftedWeight(baseline[asset], asset, rule, "RiskAssets_down", risk, FALSE)
        w2 == ShiftedWeight(w1, asset, rule, "RiskAssets_up", risk, TRUE)
        w3 == ShiftedWeight(w2, asset, rule, "SafeAssets_down", safe, FALSE)
        w4 == ShiftedWeight(w3, asset, rule, "SafeAssets_up", safe, TRUE)
    IN  w4

AccommodatedWeight(asset, rule) == AccommodatedWeightOf(config, Baseline, asset, rule)

\* C6: under accommodate, when a rule matches, before normalization every
\* asset of the allocation that is in a shifted group's list has moved by
\* shift / (length of that list), clamped at 0 downward and at 1 upward, the
\* configured shifts taken in the order risk down, risk up, safe down, safe
\* up; an asset in no shifted group keeps its weight; no asset is added.
C6_AccommodateShiftsEvenly ==
    (Returned /\ ~Early /\ Strategy = "accommodate") =>
        \A level \in MatchedLevels :
            /\ DOMAIN adjusted = DOMAIN Baseline
            /\ \A asset \in DOMAIN Baseline :
                  adjusted[asset] = AccommodatedWeight(asset, Table[AccommodateRuleOf(level)])

\* C6 witness: a matching rule moved a risk asset down by shift/2 while the
\* group's other asset is absent from the allocation, clamped another weight,
\* and left an asset outside the groups alone
C6_Witness ==
    /\ Returned /\ ~Early /\ Strategy = "accommodate"
    /\ MatchedLevels # {}
    /\ config = EmptyDict
    /\ "Commodities" \notin DOMAIN Baseline
    /\ "RiskAssets_down" \in DOMAIN Table[AccommodateRuleOf(CHOOSE l \in MatchedLevels : TRUE)]
    /\ RLt(Zero, adjusted["Stocks"])
    /\ RLt(adjusted["Stocks"], Baseline["Stocks"])
    /\ "Cash" \in DOMAIN Baseline
    /\ RLt(Zero, Baseline["Cash"])
    /\ adjusted["Cash"] = Baseline["Cash"]
    /\ adjusted["Bonds"] = Zero
    /\ RLt(Zero, Baseline["Bonds"])

\* C9: when the adjusted weights sum to 0 the call raises nothing and returns
\* them as they are, every weight 0
C9_ZeroTotalReturnedUnnormalized ==
    (Returned /\ ~Early /\ DictSum(adjusted) = Zero) =>
        /\ returned.raised = "none"
        /\ heap[returned.ref] = adjusted
        /\ \A asset \in DOMAIN adjusted : heap[returned.ref][asset] = Zero

\* C9 witness: a baseline summing to 1 had every weight driven to 0
C9_Witness ==
    /\ Returned /\ ~Early
    /\ DictSum(Baseline) = One
    /\ DictSum(adjusted) = Zero
    /\ returned.raised = "none"
    /\ \A asset \in DOMAIN Baseline : heap[returned.ref][asset] = Zero

\* ---------------------------------------------------------------- the session: pure parts

\* config/defaults.py DEFAULT_ASSETS: expected_return and risk of each asset
DEFAULT_ASSETS ==
    [Stocks |-> [expected_return |-> Rat(8, 100), risk |-> Rat(20, 100)],
     Bonds |-> [expected_return |-> Rat(4, 100), risk |-> Rat(5, 100)],
     Cash |-> [expected_return |-> Rat(15, 1000), risk |-> Rat(1, 100)],
     RealEstate |-> [expected_return |-> Rat(6, 100), risk |-> Rat(12, 100)],
     Gold |-> [expected_return |-> Rat(3, 100), risk |-> Rat(15, 100)]]

get_assets(cfg) == DictGet(cfg, "assets", DEFAULT_ASSETS)

\* config/defaults.py DEFAULT_RISK_MAPPING: the value of each option of each
\* question, in the order the slider lists the options
DEFAULT_RISK_MAPPING ==
    [q1 |-> <<0, 20, 40, 60, 80, 100>>,
     q2 |-> <<0, 33, 67, 100>>,
     q3 |-> <<0, 25, 50, 75, 100>>,
     q4 |-> <<0, 25, 50, 75, 100>>,
     q5 |-> <<0, 25, 50, 75, 100>>]

get_risk_mapping(cfg) == DictGet(cfg, "risk_mapping", DEFAULT_RISK_MAPPING)

\* questionnaire_page: the score of the five answers, each the index of an
\* option (the variant: the sum not divided)
QuestionnaireScore_sum(cfg, q) ==
    LET risk_mapping == get_risk_mapping(cfg)
    IN  Int2Rat(risk_mapping["q1"][q[1]] + risk_mapping["q2"][q[2]] + risk_mapping["q3"][q[3]]
                + risk_mapping["q4"][q[4]] + risk_mapping["q5"][q[5]])

QuestionnaireScore(cfg, q) ==
    LET risk_mapping == get_risk_mapping(cfg)
    IN  Rat(risk_mapping["q1"][q[1]] + risk_mapping["q2"][q[2]] + risk_mapping["q3"][q[3]]
            + risk_mapping["q4"][q[4]] + risk_mapping["q5"][q[5]], 5)

\* behavior_quiz_page steps 2 and 3: answers is the list of the four choices,
\* TRUE for option B; the score goes by the first B
LotteryScore(answers) ==
    IF answers[1] THEN 100
    ELSE IF answers[2] THEN 80
    ELSE IF answers[3] THEN 60
    ELSE IF answers[4] THEN 40
    ELSE 20

\* step 1: the score of the option chosen (1, 2 or 3)
PreferenceScore(option) == IF option = 1 THEN 20 ELSE IF option = 2 THEN 50 ELSE 80

\* step 4: sell the winner now and hold the loser scores 30, anything else 80
MentalAccountingScore(sell_winner, hold_loser) ==
    IF sell_winner /\ hold_loser THEN 30 ELSE 80

\* step 6: G1 = the number of answers believed right - the number right
OverconfidenceScore(believed, correct) ==
    LET G1 == believed - correct
    IN  IF G1 <= 0 THEN 100 ELSE IF G1 = 1 THEN 70 ELSE IF G1 = 2 THEN 40 ELSE 20

\* step 5 counts the right answers each time its form is drawn; drawn afresh
\* the three radios show their first options, of which the third alone is right
DefaultCorrectAnswers == 1

\* finance_quiz_correct once the script has run with the quiz at `step` of `pg`
AfterDrawing(pg, step, correct) ==
    IF pg = 3 /\ step = 5 THEN DefaultCorrectAnswers ELSE correct

\* determine_financial_personality: the level of a score
Level(score) == IF score >= 50 THEN "high" ELSE "low"

\* determine_financial_personality: the personality's key
determine_financial_personality(scores) ==
    [risk_aversion |-> Level(scores["risk_aversion"]),
     loss_aversion |-> Level(scores["loss_aversion"]),
     mental_accounting |-> Level(scores["mental_accounting"]),
     overconfidence |-> Level(scores["overconfidence"])]

\* get_experiment_groups.  The fallback DEFAULT_EXPERIMENT_GROUPS is not among
\* the sources: every configuration of a session below sets the key.
get_experiment_groups(cfg) == cfg["experiment_groups"]

get_experiment_group(cfg, group_id) ==
    LET experiment_groups == get_experiment_groups(cfg)
    IN  IF group_id \in DOMAIN experiment_groups
        THEN experiment_groups[group_id]
        ELSE experiment_groups["control"]

\* st.session_state.experiment_group == "control" (the variant: no session
\* taken for one of the control group)
IsControlSession_never(group_id) == FALSE

IsControlSession(group_id) == group_id = "control"

\* generate_recommendation: the control group gets the session's initial
\* allocation object; any other group the preset of the risk band, a dict of
\* the configuration that load_config() (st.cache_data) hands out as a copy
generate_recommendation(h, cfg, group_id, initial_ref, score) ==
    IF IsControlSession(group_id)
    THEN [heap |-> h, ref |-> initial_ref]
    ELSE [heap |-> (FreshRef(h) :> get_risk_recommendation(cfg, score)) @@ h,
          ref |-> FreshRef(h)]

\* the dict the pages pass as behavior_answers: st.session_state.behavior_scores
ScoresPassed(scores) == [d \in DOMAIN scores |-> NumVal(scores[d])]

\* the block shared by financial_personality_page (868-882) and
\* experiment_group_selection (1570-1584): the recommendation of a session
DeriveRecommendation(h, cfg, group_id, initial_ref, score, scores) ==
    LET standard_recommendation == generate_recommendation(h, cfg, group_id, initial_ref, score)
    IN  adjust_recommendation(standard_recommendation.heap, cfg, initial_ref,
                              standard_recommendation.ref,
                              get_experiment_group(cfg, group_id),
                              ScoresPassed(scores))

\* The objects still referenced once a script run is over, the others dropped.
\* Object identities are kept up to renaming: the initial allocation is object
\* 1, the recommended one object 2 unless it is the initial allocation itself,
\* the final one object 3.
Settle(h, initial_ref, recommended_ref, final_ref) ==
    LET ni == IF initial_ref = NoRef THEN NoRef ELSE 1
        nr == IF recommended_ref = NoRef THEN NoRef
              ELSE IF recommended_ref = initial_ref THEN ni ELSE 2
        nf == IF final_ref = NoRef THEN NoRef ELSE 3
    IN  [heap |-> [n \in {ni, nr, nf} \ {NoRef} |->
                      IF n = ni THEN h[initial_ref]
                      ELSE IF n = nr THEN h[recommended_ref]
                      ELSE h[final_ref]],
         initial |-> ni, recommended |-> nr, final |-> nf]

RAbs(x) == IF x[1] < 0 THEN <<-x[1], x[2]>> ELSE x

\* the sum check of the two allocation forms: abs(total - 100.0) > 0.01 (the
\* variant: no check)
SumIsOff_never(values) == FALSE

SumIsOff(values) == RLt(Rat(1, 100), RAbs(RSub(DictSum(values), Int2Rat(100))))

\* {asset: values[asset] / 100.0 for asset in assets}
AsFractions(cfg, values) ==
    [asset \in DOMAIN get_assets(cfg) |-> RDiv(values[asset], Int2Rat(100))]

\* ---------------------------------------------------------------- the session: inputs

\* the experiment groups of a configuration: the control group, one
\* accommodate group and one educate group, every rule with fraction f
ExperimentGroupsWith(f) ==
    [control |->
        [name |-> "ControlGroup", recommendation_strategy |-> "standard",
         adjustment |-> EmptyDict],
     accommodate |->
        [name |-> "AccommodateGroup", recommendation_strategy |-> "accommodate",
         adjustment |->
            [risk_aversion_high |-> [RiskAssets_down |-> f, SafeAssets_up |-> f],
             risk_aversion_low |-> [RiskAssets_up |-> f, SafeAssets_down |-> f]]],
     educate |->
        [name |-> "EducateGroup", recommendation_strategy |-> "educate",
         adjustment |->
            [mental_accounting_high |-> [diversify_up |-> f],
             loss_aversion_high |-> [RiskAssets_up |-> f, SafeAssets_down |-> f]]]]

\* the configuration of a session: every rule moves a tenth
SessionConfigs == {[experiment_groups |-> ExperimentGroupsWith(Rat(1, 10))]}

\* what a user may enter on the two allocation forms, in percent: two
\* allocations that total 100 and one that does not
AllocationEntries ==
    {[Stocks |-> Int2Rat(20), Bonds |-> Int2Rat(20), Cash |-> Int2Rat(20),
      RealEstate |-> Int2Rat(20), Gold |-> Int2Rat(20)],
     [Stocks |-> Int2Rat(60), Bonds |-> Int2Rat(40), Cash |-> Int2Rat(0),
      RealEstate |-> Int2Rat(0), Gold |-> Int2Rat(0)],
     [Stocks |-> Int2Rat(50), Bonds |-> Int2Rat(0), Cash |-> Int2Rat(0),
      RealEstate |-> Int2Rat(0), Gold |-> Int2Rat(0)]}

\* questionnaire answers: the sliders' defaults, and the highest options
QuestionnaireEntries == {<<3, 3, 3, 3, 3>>, <<6, 4, 5, 5, 5>>}

\* the risk-aversion lotteries: all A (score 20), or B from the first on (100)
LotteryEntries == {[i \in 1..4 |-> FALSE], [i \in 1..4 |-> TRUE]}

\* the loss-aversion lotteries: all A (score 20)
LossEntries == {[i \in 1..4 |-> FALSE]}

\* ---------------------------------------------------------------- the session: handlers

\* welcome_page: the button (the variant: the questionnaire shown next)
ViewFunds_toQuestionnaire ==
    /\ page = 0
    /\ page' = 2
    /\ UNCHANGED <<heap, config, callVars, risk_score, initial_allocation, recommended_allocation, final_allocation, behavior_scores, finance_quiz_correct, behavior_quiz_step, financial_personality, experiment_group, real_account_linked, survey_submitted, personal_info, continue_shown>>

ViewFunds ==
    /\ page = 0
    /\ page' = 1
    /\ UNCHANGED <<heap, config, callVars, risk_score, initial_allocation, recommended_allocation, final_allocation, behavior_scores, finance_quiz_correct, behavior_quiz_step, financial_personality, experiment_group, real_account_linked, survey_submitted, personal_info, continue_shown>>

\* initial_allocation_inputs: the submit button
SubmitInitialAllocation ==
    /\ page = 1
    /\ \E values \in AllocationEntries :
          IF SumIsOff(values)
          THEN UNCHANGED <<heap, initial_allocation, recommended_allocation, final_allocation, page>>
          ELSE LET ref == FreshRef(heap)
                   after == Settle((ref :> AsFractions(config, values)) @@ heap,
                                   ref, recommended_allocation, final_allocation)
               IN  /\ initial_allocation' = after.initial
                   /\ recommended_allocation' = after.recommended
                   /\ final_allocation' = after.final
                   /\ heap' = after.heap
                   /\ page' = 2
    /\ UNCHANGED <<config, callVars, risk_score, behavior_scores, finance_quiz_correct, behavior_quiz_step, financial_personality, experiment_group, real_account_linked, survey_submitted, personal_info, continue_shown>>

\* questionnaire_page: the form's submit, the sliders at the options q
SubmitQuestionnaireWith(q) ==
    /\ page = 2
    /\ risk_score' = QuestionnaireScore(config, q)
    /\ personal_info' = TRUE
    /\ page' = 3
    /\ finance_quiz_correct' = AfterDrawing(3, behavior_quiz_step, finance_quiz_correct)
    /\ UNCHANGED <<heap, config, callVars, initial_allocation, recommended_allocation, final_allocation, behavior_scores, behavior_quiz_step, financial_personality, experiment_group, real_account_linked, survey_submitted, continue_shown>>

SubmitQuestionnaire == \E q \in QuestionnaireEntries : SubmitQuestionnaireWith(q)

\* behavior_quiz_page, step 1: return target and horizon
QuizStep1 ==
    /\ page = 3 /\ behavior_quiz_step = 1
    /\ \E return_target \in {2}, horizon \in {3} :
          behavior_scores' = [behavior_scores EXCEPT
                                 !["return_target"] = PreferenceScore(return_target),
                                 !["horizon"] = PreferenceScore(horizon)]
    /\ behavior_quiz_step' = 2
    /\ UNCHANGED <<heap, config, callVars, page, risk_score, initial_allocation, recommended_allocation, final_allocation, finance_quiz_correct, financial_personality, experiment_group, real_account_linked, survey_submitted, personal_info, continue_shown>>

\* step 2: risk aversion
QuizStep2 ==
    /\ page = 3 /\ behavior_quiz_step = 2
    /\ \E risk_answers \in LotteryEntries :
          behavior_scores' = [behavior_scores EXCEPT
                                 !["risk_aversion"] = LotteryScore(risk_answers)]
    /\ behavior_quiz_step' = 3
    /\ UNCHANGED <<heap, config, callVars, page, risk_score, initial_allocation, recommended_allocation, final_allocation, finance_quiz_correct, financial_personality, experiment_group, real_account_linked, survey_submitted, personal_info, continue_shown>>

\* step 3: loss aversion
QuizStep3 ==
    /\ page = 3 /\ behavior_quiz_step = 3
    /\ \E loss_answers \in LossEntries :
          behavior_scores' = [behavior_scores EXCEPT
                                 !["loss_aversion"] = LotteryScore(loss_answers)]
    /\ behavior_quiz_step' = 4
    /\ UNCHANGED <<heap, config, callVars, page, risk_score, initial_allocation, recommended_allocation, final_allocation, finance_quiz_correct, financial_personality, experiment_group, real_account_linked, survey_submitted, personal_info, continue_shown>>

\* step 4: mental accounting
QuizStep4 ==
    /\ page = 3 /\ behavior_quiz_step = 4
    /\ \E sell_winner \in BOOLEAN, hold_loser \in BOOLEAN :
          behavior_scores' = [behavior_scores EXCEPT
                                 !["mental_accounting"] =
                                     MentalAccountingScore(sell_winner, hold_loser)]
    /\ behavior_quiz_step' = 5
    /\ finance_quiz_correct' = AfterDrawing(page, 5, finance_quiz_correct)
    /\ UNCHANGED <<heap, config, callVars, page, risk_score, initial_allocation, recommended_allocation, final_allocation, financial_personality, experiment_group, real_account_linked, survey_submitted, personal_info, continue_shown>>

\* step 5: the three finance questions; the count of right answers among the
\* submitted ones is stored
QuizStep5 ==
    /\ page = 3 /\ behavior_quiz_step = 5
    /\ \E correct_answers \in {1, 3} : finance_quiz_correct' = correct_answers
    /\ behavior_quiz_step' = 6
    /\ UNCHANGED <<heap, config, callVars, page, risk_score, initial_allocation, recommended_allocation, final_allocation, behavior_scores, financial_personality, experiment_group, real_account_linked, survey_submitted, personal_info, continue_shown>>

\* step 6: the self assessment; the personality is determined, the quiz is over
QuizStep6 ==
    /\ page = 3 /\ behavior_quiz_step = 6
    /\ \E overconfidence_q1 \in {2} :
          LET scores == [behavior_scores EXCEPT
                            !["overconfidence"] =
                                OverconfidenceScore(overconfidence_q1, finance_quiz_correct)]
          IN  /\ behavior_scores' = scores
              /\ financial_personality' = determine_financial_personality(scores)
    /\ behavior_quiz_step' = 1
    /\ page' = 4
    /\ UNCHANGED <<heap, config, callVars, risk_score, initial_allocation, recommended_allocation, final_allocation, finance_quiz_correct, experiment_group, real_account_linked, survey_submitted, personal_info, continue_shown>>

\* financial_personality_page: the button that derives the recommendation
ViewRecommendation ==
    /\ page = 4
    /\ LET r == DeriveRecommendation(heap, config, experiment_group,
                                     initial_allocation, risk_score, behavior_scores)
           after == Settle(r.heap, initial_allocation, r.ref, final_allocation)
       IN  IF r.raised = "none"
           THEN /\ initial_allocation' = after.initial
                /\ recommended_allocation' = after.recommended
                /\ final_allocation' = after.final
                /\ heap' = after.heap
                /\ page' = 5
           ELSE UNCHANGED <<initial_allocation, recommended_allocation, final_allocation, heap, page>>
    /\ UNCHANGED <<config, callVars, risk_score, behavior_scores, finance_quiz_correct, behavior_quiz_step, financial_personality, experiment_group, real_account_linked, survey_submitted, personal_info, continue_shown>>

\* recommendation_page: the button to the modification page
ModifyPlan ==
    /\ page = 5
    /\ page' = 6
    /\ UNCHANGED <<heap, config, callVars, risk_score, initial_allocation, recommended_allocation, final_allocation, behavior_scores, finance_quiz_correct, behavior_quiz_step, financial_personality, experiment_group, real_account_linked, survey_submitted, personal_info, continue_shown>>

\* modification_page: the submit button
SubmitFinalAllocation ==
    /\ page = 6
    /\ \E values \in AllocationEntries :
          IF SumIsOff(values)
          THEN UNCHANGED <<heap, initial_allocation, recommended_allocation, final_allocation, page>>
          ELSE LET ref == FreshRef(heap)
                   after == Settle((ref :> AsFractions(config, values)) @@ heap,
                                   initial_allocation, recommended_allocation, ref)
               IN  /\ initial_allocation' = after.initial
                   /\ recommended_allocation' = after.recommended
                   /\ final_allocation' = after.final
                   /\ heap' = after.heap
                   /\ page' = 7
    /\ UNCHANGED <<config, callVars, risk_score, behavior_scores, finance_quiz_correct, behavior_quiz_step, financial_personality, experiment_group, real_account_linked, survey_submitted, personal_info, continue_shown>>

\* simulation_page: the button to the account page
GoLinkAccount ==
    /\ page = 7
    /\ page' = 8
    /\ UNCHANGED <<heap, config, callVars, risk_score, initial_allocation, recommended_allocation, final_allocation, behavior_scores, finance_quiz_correct, behavior_quiz_step, financial_personality, experiment_group, real_account_linked, survey_submitted, personal_info, continue_shown>>

\* every key of the session state deleted, page set to 0, and the defaults set
\* up again by the next run of the script
SessionReset ==
    /\ page' = 0
    /\ risk_score' = Zero
    /\ initial_allocation' = NoRef
    /\ recommended_allocation' = NoRef
    /\ final_allocation' = NoRef
    /\ behavior_scores' = FreshSessionScores
    /\ finance_quiz_correct' = 0
    /\ behavior_quiz_step' = 1
    /\ financial_personality' = NoPersonality
    /\ experiment_group' = "control"
    /\ real_account_linked' = FALSE
    /\ survey_submitted' = FALSE
    /\ personal_info' = FALSE
    /\ continue_shown' = FALSE
    /\ heap' = EmptyDict
    /\ UNCHANGED <<config, callVars>>

\* simulation_page: the restart button
RestartFromSimulation ==
    /\ page = 7
    /\ SessionReset

\* link_real_account_page: the link button.  The continue button nested under
\* it is drawn in this run, in which it reads False.
LinkAccount ==
    /\ page = 8
    /\ real_account_linked' = TRUE
    /\ continue_shown' = TRUE
    /\ UNCHANGED <<heap, config, callVars, page, risk_score, initial_allocation, recommended_allocation, final_allocation, behavior_scores, finance_quiz_correct, behavior_quiz_step, financial_personality, experiment_group, survey_submitted, personal_info>>

\* link_real_account_page: the continue button, on the page since the run of
\* the link button.  In the run the press starts the link button reads False,
\* so the block that holds the continue button is not entered: nothing is
\* assigned, and the button is drawn no more.
PressContinue ==
    /\ page = 8
    /\ continue_shown
    /\ continue_shown' = FALSE
    /\ UNCHANGED <<heap, config, callVars, page, risk_score, initial_allocation, recommended_allocation, final_allocation, behavior_scores, finance_quiz_correct, behavior_quiz_step, financial_personality, experiment_group, real_account_linked, survey_submitted, personal_info>>

\* link_real_account_page: the skip button
SkipLinking ==
    /\ page = 8
    /\ page' = 9
    /\ continue_shown' = FALSE
    /\ UNCHANGED <<heap, config, callVars, risk_score, initial_allocation, recommended_allocation, final_allocation, behavior_scores, finance_quiz_correct, behavior_quiz_step, financial_personality, experiment_group, real_account_linked, survey_submitted, personal_info>>

\* satisfaction_survey_page: the form's submit
SubmitSurvey ==
    /\ page = 9 /\ ~survey_submitted
    /\ survey_submitted' = TRUE
    /\ UNCHANGED <<heap, config, callVars, page, risk_score, initial_allocation, recommended_allocation, final_allocation, behavior_scores, finance_quiz_correct, behavior_quiz_step, financial_personality, experiment_group, real_account_linked, personal_info, continue_shown>>

\* satisfaction_survey_page: the restart button shown after the submit
RestartFromSurvey ==
    /\ page = 9 /\ survey_submitted
    /\ SessionReset

\* main: the sidebar's back button (the variant: shown on page 1 too)
GoBack_fromFirst ==
    /\ page > 0
    /\ page' = page - 1
    /\ continue_shown' = FALSE
    /\ UNCHANGED <<heap, config, callVars, risk_score, initial_allocation, recommended_allocation, final_allocation, behavior_scores, finance_quiz_correct, behavior_quiz_step, financial_personality, experiment_group, real_account_linked, survey_submitted, personal_info>>

GoBack ==
    /\ page > 1
    /\ page' = page - 1
    /\ continue_shown' = FALSE
    /\ UNCHANGED <<heap, config, callVars, risk_score, initial_allocation, recommended_allocation, final_allocation, behavior_scores, finance_quiz_correct, behavior_quiz_step, financial_personality, experiment_group, real_account_linked, survey_submitted, personal_info>>

\* experiment_group_selection: whether a change of group derives the
\* recommendation again (the variant: never)
RederivesOnChange_never(pg, recommended) == FALSE

RederivesOnChange(pg, recommended) == pg >= 5 /\ recommended # NoRef

\* experiment_group_selection: another group picked in the sidebar's selector
SelectGroup ==
    /\ \E group_id \in DOMAIN get_experiment_groups(config) :
          /\ group_id # experiment_group
          /\ experiment_group' = group_id
          /\ IF RederivesOnChange(page, recommended_allocation)
             THEN LET r == DeriveRecommendation(heap, config, group_id,
                                                initial_allocation, risk_score,
                                                behavior_scores)
                      after == Settle(r.heap, initial_allocation, r.ref, final_allocation)
                  IN  IF r.raised = "none"
                      THEN /\ initial_allocation' = after.initial
                           /\ recommended_allocation' = after.recommended
                           /\ final_allocation' = after.final
                           /\ heap' = after.heap
                      ELSE UNCHANGED <<initial_allocation, recommended_allocation, final_allocation, heap>>
             ELSE UNCHANGED <<initial_allocation, recommended_allocation, final_allocation, heap>>
    /\ continue_shown' = FALSE
    /\ UNCHANGED <<config, callVars, page, risk_score, behavior_scores, finance_quiz_correct, behavior_quiz_step, financial_personality, real_account_linked, survey_submitted, personal_info>>

\* ---------------------------------------------------------------- Spec: a session

Init ==
    /\ SessionDefaults
    /\ CallIdle
    /\ heap = EmptyDict
    /\ config \in SessionConfigs

Next ==
    \/ ViewFunds
    \/ SubmitInitialAllocation
    \/ SubmitQuestionnaire
    \/ QuizStep1
    \/ QuizStep2
    \/ QuizStep3
    \/ QuizStep4
    \/ QuizStep5
    \/ QuizStep6
    \/ ViewRecommendation
    \/ ModifyPlan
    \/ SubmitFinalAllocation
    \/ GoLinkAccount
    \/ RestartFromSimulation
    \/ LinkAccount
    \/ PressContinue
    \/ SkipLinking
    \/ SubmitSurvey
    \/ RestartFromSurvey
    \/ GoBack
    \/ SelectGroup

Spec == Init /\ [][Next]_vars

\* ---------------------------------------------------------------- claims on a session

\* the step of financial_personality_page's button that stores a recommendation
DerivesRecommendation == page = 4 /\ page' = 5

SessionGroup == get_experiment_group(config, experiment_group)
SessionStrategy == DictGet(SessionGroup, "recommendation_strategy", "standard")
SessionTable == DictGet(SessionGroup, "adjustment", EmptyDict)

\* the baseline of a session outside the control group: the preset of its score
SessionBaseline == get_risk_recommendation(config, risk_score)

\* result is `weights` divided by their (positive) total
IsNormalized(result, weights) ==
    /\ DOMAIN result = DOMAIN weights
    /\ \A asset \in DOMAIN weights :
          RMul(result[asset], DictSum(weights)) = weights[asset]

\* every weight of the baseline pulled to the unweighted mean by the factor f
BlendedBaseline(baseline, f) ==
    LET mean == RDiv(DictSum(baseline), Int2Rat(Cardinality(DOMAIN baseline)))
    IN  [asset \in DOMAIN baseline |->
            RAdd(RMul(baseline[asset], RSub(One, f)), RMul(mean, f))]

\* C7 as stated: in a session of an educate group whose table has the
\* mental-accounting rule, whenever the quiz's mental-accounting score is high
\* (and the loss-aversion score is not), the recommendation stored is the
\* baseline with every weight replaced by old*(1-f) + mean*f, normalized
C7_Original ==
    [][(/\ DerivesRecommendation
        /\ SessionStrategy = "educate"
        /\ "mental_accounting_high" \in DOMAIN SessionTable
        /\ "diversify_up" \in DOMAIN SessionTable["mental_accounting_high"]
        /\ Level(behavior_scores["mental_accounting"]) = "high"
        /\ Level(behavior_scores["loss_aversion"]) = "low")
       => IsNormalized(heap'[recommended_allocation'],
                       BlendedBaseline(SessionBaseline,
                           SessionTable["mental_accounting_high"]["diversify_up"]))]_vars

\* C8 as stated: in a session of an accommodate group, when the table has an
\* entry for the level (high or low) of the quiz's risk-aversion score, the
\* recommendation stored is the baseline with that entry's shifts applied,
\* normalized
C8_Original ==
    [][(/\ DerivesRecommendation
        /\ SessionStrategy = "accommodate"
        /\ AccommodateRuleOf(Level(behavior_scores["risk_aversion"])) \in DOMAIN SessionTable)
       => IsNormalized(heap'[recommended_allocation'],
                       [asset \in DOMAIN SessionBaseline |->
                           AccommodatedWeightOf(config, SessionBaseline, asset,
                               SessionTable[AccommodateRuleOf(
                                   Level(behavior_scores["risk_aversion"]))])])]_vars

\* ---------------------------------------------------------------- SpecRisk

\* the scores tried: k/ScoreResolution for every k up to 100*ScoreResolution
ScoreResolution == 5

ScoreGrid == {Rat(k, ScoreResolution) : k \in 0..(100 * ScoreResolution)}

\* configurations: the presets not set, a table that sets two of the five,
\* and risk categories with the default bounds under names of their own
RiskConfigs ==
    {EmptyDict,
     [risk_recommendations |->
        [moderate |-> [Stocks |-> Pct(50), Bonds |-> Pct(50)],
         conservative |-> [Stocks |-> Pct(20), Bonds |-> Pct(80)]]],
     [risk_categories |->
        <<<<"very_conservative", [max_score |-> 20, name |-> "Very Conservative"]>>,
          <<"conservative", [max_score |-> 40, name |-> "Conservative"]>>,
          <<"moderate", [max_score |-> 60, name |-> "Moderate"]>>,
          <<"aggressive", [max_score |-> 80, name |-> "Aggressive"]>>,
          <<"very_aggressive", [max_score |-> 100, name |-> "Very Aggressive"]>>>>]}

InitRisk ==
    /\ SessionDefaults
    /\ heap = EmptyDict
    /\ config \in RiskConfigs
    /\ pc = "call"
    /\ \E s \in ScoreGrid : call = [risk_score |-> s]
    /\ adjusted = NoDict
    /\ returned = [raised |-> "none", value |-> NoDict]
    /\ rng_stream = NoStream
    /\ NoSimulation

CallRisk ==
    /\ pc = "call"
    /\ pc' = "returned"
    /\ returned' = [raised |-> "none",
                    value |-> get_risk_recommendation(config, call.risk_score),
                    category |-> get_risk_category(config, call.risk_score)]
    /\ UNCHANGED <<heap, config, call, adjusted, rng_stream, rng_pos, runs, frames, sessionVars>>

NextRisk == CallRisk

SpecRisk == InitRisk /\ [][NextRisk]_vars

\* C1: a score below 20 gets the very_conservative preset, from 20 to below 40
\* the conservative one, from 40 to below 60 the moderate one, from 60 to below
\* 80 the aggressive one, from 80 on the very_aggressive one; a preset is the
\* configuration's, else the default of that name
C1_BandsByCutpoints ==
    Returned =>
        LET s == call.risk_score
            presets == DictGet(config, "risk_recommendations", DEFAULT_RISK_RECOMMENDATIONS)
            preset(band) == DictGet(presets, band, DEFAULT_RISK_RECOMMENDATIONS[band])
        IN  /\ RLt(s, Int2Rat(20)) => returned.value = preset("very_conservative")
            /\ (RLe(Int2Rat(20), s) /\ RLt(s, Int2Rat(40))) =>
                   returned.value = preset("conservative")
            /\ (RLe(Int2Rat(40), s) /\ RLt(s, Int2Rat(60))) =>
                   returned.value = preset("moderate")
            /\ (RLe(Int2Rat(60), s) /\ RLt(s, Int2Rat(80))) =>
                   returned.value = preset("aggressive")
            /\ RLe(Int2Rat(80), s) => returned.value = preset("very_aggressive")

\* C1 witness: the score 20 got the conservative preset, which is not the
\* very_conservative one
C1_Witness ==
    /\ Returned
    /\ call.risk_score = Int2Rat(20)
    /\ returned.value = PresetOf(config, "conservative")
    /\ returned.value # PresetOf(config, "very_conservative")

\* ---------------------------------------------------------------- simulate_returns

\* the order a dict built over the asset table lists its keys in
AssetOrder == <<"Stocks", "Bonds", "Cash", "RealEstate", "Gold">>

InAllocation(allocation, asset) == asset \in DOMAIN allocation

KeysInOrder(allocation) ==
    SelectSeq(AssetOrder, LAMBDA asset : InAllocation(allocation, asset))

\* np.random.normal(mu, sigma) with mu = expected_return / 365 and
\* sigma = risk / sqrt(365): the draw z of the standard normal is written
\* u * sqrt(365), so that the daily return is mu + risk * u
DailyReturn(cfg, asset, u) ==
    RAdd(RDiv(get_assets(cfg)[asset]["expected_return"], Int2Rat(365)),
         RMul(get_assets(cfg)[asset]["risk"], u))

\* new_value = cumulative_returns[asset][-1] * (1 + daily_return) (the
\* variant: the return added to the value)
NewValue_added(previous, daily_return) == RAdd(previous, daily_return)

NewValue(previous, daily_return) == RMul(previous, RAdd(One, daily_return))

\* cumulative_returns[names[j]][day]; the draw of asset j on a day is the
\* j-th of that day's draws
RECURSIVE CumulativeValue(_, _, _, _, _, _, _)
CumulativeValue(cfg, allocation, names, stream, j, day, initial_investment) ==
    IF day = 0
    THEN RMul(allocation[names[j]], Int2Rat(initial_investment))
    ELSE NewValue(CumulativeValue(cfg, allocation, names, stream, j, day - 1, initial_investment),
                  DailyReturn(cfg, names[j], stream[(day - 1) * Len(names) + j]))

\* daily_total once the first j assets of the day are added
RECURSIVE DailyTotal(_, _, _, _, _, _, _)
DailyTotal(cfg, allocation, names, stream, j, day, initial_investment) ==
    IF j = 0 THEN Zero
    ELSE RAdd(DailyTotal(cfg, allocation, names, stream, j - 1, day, initial_investment),
              CumulativeValue(cfg, allocation, names, stream, j, day, initial_investment))

\* the last day of range(1, days + 1), 0 when the range is empty (the variant:
\* range(1, days))
LastDay_short(days) == IF days = 0 THEN 0 ELSE days - 1

LastDay(days) == days

\* total_portfolio once the iteration of `day` is over (day 0: before the loop)
RECURSIVE TotalPortfolio(_, _, _, _, _, _)
TotalPortfolio(cfg, allocation, names, stream, day, initial_investment) ==
    IF day = 0
    THEN <<Int2Rat(initial_investment)>>
    ELSE Append(TotalPortfolio(cfg, allocation, names, stream, day - 1, initial_investment),
                DailyTotal(cfg, allocation, names, stream, Len(names), day, initial_investment))

simulate_returns(cfg, allocation, days, initial_investment, stream) ==
    TotalPortfolio(cfg, allocation, KeysInOrder(allocation), stream, LastDay(days), initial_investment)

\* the local cumulative_returns when the call returns: the values of each asset,
\* day 0 first
CumulativeReturns(cfg, allocation, days, initial_investment, stream) ==
    LET names == KeysInOrder(allocation)
    IN  [asset \in DOMAIN allocation |->
            LET j == CHOOSE i \in 1..Len(names) : names[i] = asset
            IN  [d \in 1..(LastDay(days) + 1) |->
                    CumulativeValue(cfg, allocation, names, stream, j, d - 1,
                                    initial_investment)]]

\* the draws a call makes: one for each asset on each day
DrawsMade(allocation, days) == LastDay(days) * Len(KeysInOrder(allocation))

\* ---------------------------------------------------------------- SpecSim

\* the longest horizon simulated
MaxDays == 2

\* an asset table whose expected returns make expected_return / 365 a hundredth
\* or nothing
SimConfig ==
    [assets |-> [Stocks |-> [expected_return |-> Rat(73, 20), risk |-> Rat(1, 5)],
                 Bonds |-> [expected_return |-> Zero, risk |-> Rat(1, 10)]]]

\* allocations over that table: one asset, two, a weight of zero, no asset
SimAllocations ==
    {[Stocks |-> One],
     [Stocks |-> Pct(60), Bonds |-> Pct(40)],
     [Stocks |-> Zero, Bonds |-> One],
     EmptyDict}

\* the values of u a draw may have
Draws == {Rat(-1, 2), Zero, Rat(1, 2)}

\* the streams the seeded generator may yield, as long as a call may read
Streams == [1..(MaxDays * Cardinality(DOMAIN get_assets(SimConfig))) -> Draws]

InitSim ==
    /\ SessionDefaults
    /\ heap = EmptyDict
    /\ config = SimConfig
    /\ pc = "call"
    /\ \E allocation \in SimAllocations, days \in 0..MaxDays,
          initial_investment \in {10000, 5000} :
          call = [allocation |-> allocation, days |-> days,
                  initial_investment |-> initial_investment]
    /\ adjusted = NoDict
    /\ returned = [raised |-> "none", value |-> <<>>]
    /\ rng_stream \in Streams
    /\ NoSimulation

\* the thread of the one script run
Main == 1

\* one call; np.random.seed(42) puts the generator at the start of its stream
CallSimulate ==
    /\ pc = "call"
    /\ pc' = "returned"
    /\ returned' = [raised |-> "none",
                    value |-> simulate_returns(config, call.allocation, call.days,
                                               call.initial_investment, rng_stream)]
    /\ frames' = (Main :> [cumulative_returns |->
                              CumulativeReturns(config, call.allocation, call.days,
                                                call.initial_investment, rng_stream)])
    /\ rng_pos' = DrawsMade(call.allocation, call.days)
    /\ UNCHANGED <<heap, config, call, adjusted, rng_stream, runs, sessionVars>>

NextSim == CallSimulate

SpecSim == InitSim /\ [][NextSim]_vars

\* C10: the trajectory returned has exactly days + 1 values and its first is
\* initial_investment; for days = 0 it is [initial_investment]
C10_TrajectoryHasDaysPlusOneValues ==
    Returned =>
        /\ returned.raised = "none"
        /\ Len(returned.value) = call.days + 1
        /\ returned.value[1] = Int2Rat(call.initial_investment)
        /\ call.days = 0 => returned.value = <<Int2Rat(call.initial_investment)>>

\* C10 witness: a simulation over two days or more of an allocation whose value
\* moved returned days + 1 values, the first the investment
C10_Witness ==
    /\ Returned
    /\ call.days >= 2
    /\ Len(returned.value) = call.days + 1
    /\ returned.value[1] = Int2Rat(call.initial_investment)
    /\ returned.value[2] # returned.value[1]
    /\ returned.value[3] # returned.value[2]

\* the return drawn for an asset on a day: the draws run through the
\* allocation's assets, in the order of its keys, one day after the other
DrawnReturn(asset, d) ==
    LET names == KeysInOrder(call.allocation)
        j == CHOOSE i \in 1..Len(names) : names[i] = asset
    IN  DailyReturn(config, asset, rng_stream[(d - 1) * Len(names) + j])

\* the values of an asset when the call has returned, day 0 at index 1
ValuesOf(asset) == frames[Main].cumulative_returns[asset]

\* C12: every asset a starts at weight[a] * initial_investment, on every day
\* d in 1..days its value becomes previous_value * (1 + r[a,d]) for the return
\* r[a,d] drawn for it that day, and on each of these days trajectory[d] is the
\* sum over the assets of their day-d values (trajectory[0] is
\* initial_investment).
C12_ValuesCompoundAndSum ==
    Returned =>
        /\ \A asset \in DOMAIN call.allocation :
            /\ ValuesOf(asset)[1] =
                   RMul(call.allocation[asset], Int2Rat(call.initial_investment))
            /\ \A d \in 1..call.days :
                   ValuesOf(asset)[d + 1] =
                       RMul(ValuesOf(asset)[d], RAdd(One, DrawnReturn(asset, d)))
        /\ \A d \in 1..call.days :
               returned.value[d + 1] =
                   SumOver([asset \in DOMAIN call.allocation |-> ValuesOf(asset)[d + 1]],
                           DOMAIN call.allocation)
        /\ returned.value[1] = Int2Rat(call.initial_investment)

\* two assets over two days with returns that are not zero
C12_Witness ==
    /\ Returned
    /\ Cardinality(DOMAIN call.allocation) = 2
    /\ call.days = 2
    /\ \A asset \in DOMAIN call.allocation :
           /\ call.allocation[asset] # Zero
           /\ \A d \in 1..2 : DrawnReturn(asset, d) # Zero
    /\ returned.value[3] # returned.value[2]

(***************************************************************************)
(* simulate_returns called again and again by one script run.  numpy's     *)
(* generator is one object of the process: each call seeds it, then draws  *)
(* from where it stands.                                                   *)
(***************************************************************************)

\* np.random.seed(42): where the generator stands afterwards (the variant:
\* where it stood)
SeedPosition_kept(pos) == pos

SeedPosition(pos) == 0

\* what the generator yields from a position on
DrawsFrom(stream, pos) == SubSeq(stream, pos + 1, Len(stream))

MaxCalls == 3

SeqDraws == {Rat(-1, 2), Rat(1, 2)}

SeqStreams == [1..(MaxDays * Cardinality(DOMAIN get_assets(SimConfig))) -> SeqDraws]

SeqArguments ==
    {[allocation |-> allocation, days |-> days, initial_investment |-> 10000] :
        allocation \in {[Stocks |-> One], [Stocks |-> Rat(3, 5), Bonds |-> Rat(2, 5)]},
        days \in 1..MaxDays}

InitSeq ==
    /\ heap = <<>>
    /\ config = SimConfig
    /\ call = EmptyDict
    /\ adjusted = NoDict
    /\ returned = [raised |-> "none", value |-> <<>>]
    /\ pc = "call"
    /\ rng_stream \in SeqStreams
    /\ NoSimulation
    /\ SessionDefaults

\* one call, from its first line to its return
CallSimulateAgain(arguments) ==
    LET seeded == SeedPosition(rng_pos)
        made == DrawsMade(arguments.allocation, arguments.days)
        value == simulate_returns(config, arguments.allocation, arguments.days,
                                  arguments.initial_investment,
                                  DrawsFrom(rng_stream, seeded))
    IN  /\ Len(runs) < MaxCalls
        /\ seeded + made <= Len(rng_stream)
        /\ call' = arguments
        /\ returned' = [raised |-> "none", value |-> value]
        /\ rng_pos' = seeded + made
        /\ runs' = Append(runs, [arguments |-> arguments, value |-> value])
        /\ UNCHANGED <<heap, config, adjusted, pc, rng_stream, frames, sessionVars>>

NextSeq == \E arguments \in SeqArguments : CallSimulateAgain(arguments)

SpecSeq == InitSeq /\ [][NextSeq]_vars

\* C11: two calls of simulate_returns with the same allocation, days and
\* initial_investment return the same trajectory, whatever calls with other
\* arguments were made between them.
C11_SameArgumentsSameTrajectory ==
    \A i, j \in 1..Len(runs) :
        runs[i].arguments = runs[j].arguments => runs[i].value = runs[j].value

\* a call, a call with other arguments and another trajectory, then the first
\* call again
C11_Witness ==
    /\ Len(runs) = 3
    /\ runs[1].arguments = runs[3].arguments
    /\ runs[2].arguments # runs[1].arguments
    /\ runs[2].value # runs[1].value
    /\ runs[1].value[2] # runs[1].value[1]
    /\ rng_pos > 0

(***************************************************************************)
(* simulate_returns called by two sessions at once.  Streamlit runs the    *)
(* script of each session in a thread of its own; np.random is the one     *)
(* generator of the process, and a thread may be switched out between any  *)
(* two of its calls on it.                                                 *)
(***************************************************************************)

Threads == {1, 2}

ConcArguments ==
    {[allocation |-> allocation, days |-> days, initial_investment |-> 10000] :
        allocation \in {[Stocks |-> One], [Bonds |-> One]},
        days \in 1..MaxDays}

\* a call entered, before its first line
Entered(arguments) ==
    [arguments |-> arguments, pc |-> "seed", day |-> 0, j |-> 0,
     cumulative_returns |-> <<>>, daily_total |-> Zero, total_portfolio |-> <<>>]

InitConc ==
    /\ heap = <<>>
    /\ config = SimConfig
    /\ call = EmptyDict
    /\ adjusted = NoDict
    /\ returned = [raised |-> "none", value |-> <<>>]
    /\ pc = "call"
    /\ rng_stream \in SeqStreams
    /\ rng_pos = 0
    /\ runs = <<>>
    /\ frames \in [Threads -> {Entered(arguments) : arguments \in ConcArguments}]
    /\ SessionDefaults

\* np.random.seed(42), then the lists of the call at day 0
Seed(t) ==
    LET frame == frames[t]
        arguments == frame.arguments
    IN  /\ frame.pc = "seed"
        /\ rng_pos' = SeedPosition(rng_pos)
        /\ frames' = [frames EXCEPT ![t] =
               [frame EXCEPT
                   !.pc = IF arguments.days >= 1 THEN "draw" ELSE "done",
                   !.day = 1,
                   !.j = 1,
                   !.cumulative_returns =
                       [asset \in DOMAIN arguments.allocation |->
                           <<RMul(arguments.allocation[asset],
                                  Int2Rat(arguments.initial_investment))>>],
                   !.total_portfolio = <<Int2Rat(arguments.initial_investment)>>]]
        /\ UNCHANGED <<heap, config, call, adjusted, returned, pc, rng_stream, runs,
                       sessionVars>>

\* one turn of the loop over the assets: a draw from the generator where it
\* stands, the asset's new value, and after the last asset the day's total
Draw(t) ==
    LET frame == frames[t]
        arguments == frame.arguments
        names == KeysInOrder(arguments.allocation)
        asset == names[frame.j]
        series == frame.cumulative_returns[asset]
        new_value == NewValue(series[Len(series)],
                              DailyReturn(config, asset, rng_stream[rng_pos + 1]))
        daily_total == RAdd(frame.daily_total, new_value)
        lastAsset == frame.j = Len(names)
    IN  /\ frame.pc = "draw"
        /\ rng_pos < Len(rng_stream)
        /\ rng_pos' = rng_pos + 1
        /\ frames' = [frames EXCEPT ![t] =
               [frame EXCEPT
                   !.cumulative_returns = [@ EXCEPT ![asset] = Append(series, new_value)],
                   !.daily_total = IF lastAsset THEN Zero ELSE daily_total,
                   !.total_portfolio = IF lastAsset THEN Append(@, daily_total) ELSE @,
                   !.j = IF lastAsset THEN 1 ELSE frame.j + 1,
                   !.day = IF lastAsset THEN frame.day + 1 ELSE frame.day,
                   !.pc = IF lastAsset /\ frame.day = LastDay(arguments.days)
                          THEN "done" ELSE "draw"]]
        /\ UNCHANGED <<heap, config, call, adjusted, returned, pc, rng_stream, runs,
                       sessionVars>>

NextConc == \E t \in Threads : Seed(t) \/ Draw(t)

SpecConc == InitConc /\ [][NextConc]_vars

\* C13: when two simulate_returns calls run at once, under every interleaving
\* of their draws each call returns the trajectory it returns when run alone.
C13_Original ==
    \A t \in Threads :
        frames[t].pc = "done" =>
            frames[t].total_portfolio =
                simulate_returns(config, frames[t].arguments.allocation,
                                 frames[t].arguments.days,
                                 frames[t].arguments.initial_investment, rng_stream)

\* a call that no other call cuts into does return that trajectory
C13_AloneAsSequential ==
    \A t \in Threads :
        (frames[t].pc = "done" /\ \A u \in Threads \ {t} : frames[u].pc = "seed") =>
            frames[t].total_portfolio =
                simulate_returns(config, frames[t].arguments.allocation,
                                 frames[t].arguments.days,
                                 frames[t].arguments.initial_investment, rng_stream)

(***************************************************************************)
(* calculate_portfolio_metrics                                             *)
(***************************************************************************)

\* np.sqrt(x), kept as the number whose root it is
Sqrt(x) == [sqrt_of |-> x]

\* the square of such a root
Squared(root) == root.sqrt_of

\* assets[asset] raises KeyError for a key the catalogue does not have (the
\* variant: only when the asset carries weight)
RaisesKeyError_weighted(catalog, allocation, asset) ==
    asset \notin DOMAIN catalog /\ allocation[asset] # Zero

RaisesKeyError(catalog, allocation, asset) == asset \notin DOMAIN catalog

\* allocation[asset]**2 * assets[asset]["risk"]**2 (the variant: the weight
\* not squared)
RiskTerm_linear(weight, risk) == RMul(weight, RMul(risk, risk))

RiskTerm(weight, risk) == RMul(RMul(weight, weight), RMul(risk, risk))

\* one field of assets[asset], for the assets the lookup did not raise on
Field(catalog, asset, field) ==
    IF asset \in DOMAIN catalog THEN catalog[asset][field] ELSE Zero

calculate_portfolio_metrics(cfg, allocation) ==
    LET catalog == get_assets(cfg)
    IN  IF \E asset \in DOMAIN allocation : RaisesKeyError(catalog, allocation, asset)
        THEN [raised |-> "KeyError"]
        ELSE [raised |-> "none",
              portfolio_return |->
                  DictSum([asset \in DOMAIN allocation |->
                              RMul(allocation[asset],
                                   Field(catalog, asset, "expected_return"))]),
              portfolio_risk |->
                  Sqrt(DictSum([asset \in DOMAIN allocation |->
                                   RiskTerm(allocation[asset],
                                            Field(catalog, asset, "risk"))]))]

WeightSteps == 2

PortfolioAssets == {"Stocks", "Cash", "Gold", "Crypto"}

PortfolioAllocations ==
    UNION {[names -> {Rat(k, WeightSteps) : k \in 0..WeightSteps}] :
              names \in SUBSET PortfolioAssets}

InitPortfolio ==
    /\ heap = <<>>
    /\ config = EmptyDict
    /\ call \in {[allocation |-> allocation] : allocation \in PortfolioAllocations}
    /\ adjusted = NoDict
    /\ returned = [raised |-> "none"]
    /\ pc = "call"
    /\ rng_stream = NoStream
    /\ NoSimulation
    /\ SessionDefaults

CallPortfolioMetrics ==
    /\ pc = "call"
    /\ pc' = "returned"
    /\ returned' = calculate_portfolio_metrics(config, call.allocation)
    /\ UNCHANGED <<heap, config, call, adjusted, rng_stream, rng_pos, runs, frames,
                   sessionVars>>

NextPortfolio == CallPortfolioMetrics

SpecPortfolio == InitPortfolio /\ [][NextPortfolio]_vars

\* the weight an allocation gives an asset of the catalogue, 0 when it does
\* not name it
WeightIn(allocation, asset) ==
    IF asset \in DOMAIN allocation THEN allocation[asset] ELSE Zero

\* C14: for every allocation over catalogued assets, partial ones whose
\* weights do not sum to 1 included, the return is the sum over the assets of
\* weight * expected_return and the square of the risk is the sum over the
\* assets of weight^2 * risk^2, with no term for a pair of assets.
C14_ReturnAndRiskAreSums ==
    (Returned /\ DOMAIN call.allocation \subseteq DOMAIN get_assets(config)) =>
        LET catalog == get_assets(config)
            w(asset) == WeightIn(call.allocation, asset)
        IN  /\ returned.raised = "none"
            /\ returned.portfolio_return =
                   SumOver([asset \in DOMAIN catalog |->
                               RMul(w(asset), catalog[asset].expected_return)],
                           DOMAIN catalog)
            /\ Squared(returned.portfolio_risk) =
                   SumOver([asset \in DOMAIN catalog |->
                               RMul(RMul(w(asset), w(asset)),
                                    RMul(catalog[asset].risk, catalog[asset].risk))],
                           DOMAIN catalog)

\* a partial allocation: two assets of half a weight and one of none
C14_Witness ==
    /\ Returned
    /\ DOMAIN call.allocation \subseteq DOMAIN get_assets(config)
    /\ Cardinality(DOMAIN call.allocation) = 3
    /\ DictSum(call.allocation) # One
    /\ Cardinality({asset \in DOMAIN call.allocation :
                       call.allocation[asset] = Rat(1, 2)}) = 2
    /\ returned.portfolio_return # Zero

\* C15: an allocation that names an asset absent from the catalogue ends in
\* an error and yields no (return, risk), also when the unknown asset has
\* weight 0.
C15_UnknownAssetRaises ==
    (Returned /\ ~(DOMAIN call.allocation \subseteq DOMAIN get_assets(config))) =>
        /\ returned.raised = "KeyError"
        /\ DOMAIN returned = {"raised"}

\* the unknown asset with weight 0 beside a catalogued one with weight 1
C15_Witness ==
    /\ Returned
    /\ "Crypto" \in DOMAIN call.allocation
    /\ call.allocation["Crypto"] = Zero
    /\ \E asset \in DOMAIN call.allocation \cap DOMAIN get_assets(config) :
           call.allocation[asset] = One
    /\ returned.raised = "KeyError"

(***************************************************************************)
(* The analytics of the simulation page: the daily returns of a trajectory *)
(* and, in calculate_metrics, the maximum drawdown.                        *)
(***************************************************************************)

\* np.diff(simulation) / simulation[:-1]
DailyReturns(simulation) ==
    [i \in 1..(Len(simulation) - 1) |->
        RDiv(RSub(simulation[i + 1], simulation[i]), simulation[i])]

\* (1 + np.array(daily_returns)).cumprod()
RECURSIVE WealthIndex(_, _)
WealthIndex(daily_returns, i) ==
    IF i = 1 THEN RAdd(One, daily_returns[1])
    ELSE RMul(WealthIndex(daily_returns, i - 1), RAdd(One, daily_returns[i]))

\* np.maximum.accumulate(wealth_index): the highest value up to each day (the
\* variant: the highest value of all days)
RECURSIVE PreviousPeaks_overall(_, _)
PreviousPeaks_overall(wealth_index, i) ==
    IF Len(wealth_index) = 1 THEN wealth_index[1]
    ELSE RMax(wealth_index[Len(wealth_index)],
              PreviousPeaks_overall(SubSeq(wealth_index, 1, Len(wealth_index) - 1), i))

RECURSIVE PreviousPeaks(_, _)
PreviousPeaks(wealth_index, i) ==
    IF i = 1 THEN wealth_index[1]
    ELSE RMax(wealth_index[i], PreviousPeaks(wealth_index, i - 1))

\* min(drawdowns) over the first n of them
RECURSIVE MinOfFirst(_, _)
MinOfFirst(drawdowns, n) ==
    IF n = 1 THEN drawdowns[1]
    ELSE RMin(drawdowns[n], MinOfFirst(drawdowns, n - 1))

\* max_drawdown as calculate_metrics computes it, before it is formatted
MaxDrawdown(daily_returns) ==
    IF Len(daily_returns) > 0
    THEN LET wealth_index ==
                 [i \in 1..Len(daily_returns) |-> WealthIndex(daily_returns, i)]
             drawdowns ==
                 [i \in 1..Len(daily_returns) |->
                     RDiv(RSub(wealth_index[i], PreviousPeaks(wealth_index, i)),
                          PreviousPeaks(wealth_index, i))]
         IN  RMul(RAbs(MinOfFirst(drawdowns, Len(drawdowns))), Int2Rat(100))
    ELSE Zero

MaxPoints == 4

MaxValue == 4

InitMetrics ==
    /\ heap = <<>>
    /\ config = EmptyDict
    /\ call \in {[simulation |-> simulation] :
                    simulation \in UNION {[1..n -> {Int2Rat(v) : v \in 1..MaxValue}] :
                                             n \in 1..MaxPoints}}
    /\ adjusted = NoDict
    /\ returned = [raised |-> "none"]
    /\ pc = "call"
    /\ rng_stream = NoStream
    /\ NoSimulation
    /\ SessionDefaults

\* the daily returns of one trajectory and their maximum drawdown
CallMetrics ==
    /\ pc = "call"
    /\ pc' = "returned"
    /\ returned' = [raised |-> "none",
                    daily_returns |-> DailyReturns(call.simulation),
                    max_drawdown |-> MaxDrawdown(DailyReturns(call.simulation))]
    /\ UNCHANGED <<heap, config, call, adjusted, rng_stream, rng_pos, runs, frames,
                   sessionVars>>

NextMetrics == CallMetrics

SpecMetrics == InitMetrics /\ [][NextMetrics]_vars

\* each value of the trajectory above the one before
StrictlyIncreasing(simulation) ==
    \A i \in 1..(Len(simulation) - 1) : RLt(simulation[i], simulation[i + 1])

\* C16: for every strictly increasing trajectory of positive values the
\* maximum drawdown computed from its daily returns, their cumulative wealth
\* index and its running maximum is 0.
C16_NoDrawdownWhenIncreasing ==
    (Returned /\ StrictlyIncreasing(call.simulation)) =>
        returned.max_drawdown = Zero

\* a trajectory that rises on each of three days
C16_Witness ==
    /\ Returned
    /\ Len(call.simulation) = 4
    /\ StrictlyIncreasing(call.simulation)
    /\ \A i \in 1..3 : RLt(Zero, returned.daily_returns[i])
    /\ returned.max_drawdown = Zero

(***************************************************************************)
(* The session: what a stage leaves behind                                 *)
(***************************************************************************)

\* C17: once the initial allocation is submitted and the session has moved
\* on, no step short of a restart, which leaves the session without one,
\* changes initial_allocation; likewise final_allocation once page 7 is
\* reached.
C17_Original ==
    [][/\ (initial_allocation # NoRef /\ initial_allocation' # NoRef) =>
              heap'[initial_allocation'] = heap[initial_allocation]
       /\ (final_allocation # NoRef /\ final_allocation' # NoRef) =>
              heap'[final_allocation'] = heap[final_allocation]]_vars

(***************************************************************************)
(* questionnaire_page with its sliders at any of their options             *)
(***************************************************************************)

\* the options the five sliders may stand at
SliderPositions ==
    {q \in [1..5 -> 1..6] : \A i \in 1..5 : q[i] <= Len(DEFAULT_RISK_MAPPING[<<"q1", "q2", "q3", "q4", "q5">>[i]])}

\* a session on the questionnaire page, the form filled in
InitQuestionnaire ==
    /\ config = EmptyDict
    /\ heap = (1 :> AsFractions(config, CHOOSE values \in AllocationEntries :
                                            \A asset \in DOMAIN values : values[asset] = Int2Rat(20)))
    /\ page = 2
    /\ initial_allocation = 1
    /\ risk_score = Zero
    /\ recommended_allocation = NoRef
    /\ final_allocation = NoRef
    /\ behavior_scores = FreshSessionScores
    /\ finance_quiz_correct = 0
    /\ behavior_quiz_step = 1
    /\ financial_personality = NoPersonality
    /\ experiment_group = "control"
    /\ real_account_linked = FALSE
    /\ survey_submitted = FALSE
    /\ personal_info = FALSE
    /\ continue_shown = FALSE
    /\ pc = "idle"
    /\ call \in {[q |-> q] : q \in SliderPositions}
    /\ adjusted = NoDict
    /\ returned = [raised |-> "none", ref |-> NoRef]
    /\ rng_stream = NoStream
    /\ NoSimulation

NextQuestionnaire == SubmitQuestionnaireWith(call.q)

SpecQuestionnaire == InitQuestionnaire /\ [][NextQuestionnaire]_vars

\* the value config/defaults.py gives the option a slider stands at
MappedValue(question, option) == DEFAULT_RISK_MAPPING[question][option]

\* C18: for every combination of answers to the five risk questions the
\* stored risk score is the equal-weight mean of the five mapped values, and
\* it lies in [0,100].
C18_ScoreIsMeanInRange ==
    page = 3 =>
        /\ RMul(Int2Rat(5), risk_score) =
               Int2Rat(MappedValue("q1", call.q[1]) + MappedValue("q2", call.q[2])
                       + MappedValue("q3", call.q[3]) + MappedValue("q4", call.q[4])
                       + MappedValue("q5", call.q[5]))
        /\ RLe(Zero, risk_score)
        /\ RLe(risk_score, Int2Rat(100))

\* the highest option of every slider but the second, which stands at its
\* third option: a score that is no whole number
C18_Witness ==
    /\ page = 3
    /\ call.q = <<6, 3, 5, 5, 5>>
    /\ risk_score = Rat(467, 5)

\* a step that stores a recommendation: the personality page's button, or a
\* change of group once a recommendation is there
StoresRecommendation ==
    \/ page = 4 /\ page' = 5
    \/ /\ experiment_group' # experiment_group
       /\ page' = page
       /\ page >= 5
       /\ recommended_allocation # NoRef

\* C19: for a session in the control group the recommended allocation stored
\* when the recommendation stage is entered, or derived again after a change
\* of group, equals the session's initial allocation weight for weight,
\* whatever the risk score and the behaviour scores.
C19_ControlGetsInitial ==
    [][(StoresRecommendation /\ experiment_group' = "control") =>
           /\ recommended_allocation' # NoRef
           /\ heap'[recommended_allocation'] = heap'[initial_allocation']]_vars

\* a control session on the recommendation page with the higher risk score,
\* a high risk-aversion score, and an initial allocation that is no preset
C19_Witness ==
    /\ page = 5
    /\ experiment_group = "control"
    /\ risk_score = Int2Rat(100)
    /\ behavior_scores["risk_aversion"] = 100
    /\ recommended_allocation # NoRef
    /\ heap[recommended_allocation] = heap[initial_allocation]
    /\ heap[initial_allocation] # get_risk_recommendation(config, risk_score)

\* the allocation generate_recommendation followed by adjust_recommendation
\* yields for the session as it stands
DerivedNow ==
    LET r == DeriveRecommendation(heap, config, experiment_group, initial_allocation,
                                  risk_score, behavior_scores)
    IN  r.heap[r.ref]

\* C20: in every state with page >= 5, recommended_allocation equals the
\* allocation that generate_recommendation followed by adjust_recommendation
\* yields for the session's current group, risk score, behaviour scores and
\* initial allocation, after any changes of group, steps back and
\* re-submissions.
C20_RecommendationIsCurrent ==
    page >= 5 =>
        /\ recommended_allocation # NoRef
        /\ heap[recommended_allocation] = DerivedNow

\* a session back on the modification page after its final allocation was
\* submitted, in a group other than the control group
C20_Witness ==
    /\ page = 6
    /\ final_allocation # NoRef
    /\ experiment_group = "accommodate"
    /\ risk_score = Int2Rat(100)
    /\ heap[recommended_allocation] = DerivedNow
    /\ heap[recommended_allocation] # heap[initial_allocation]

(***************************************************************************)
(* adjust_recommendation called on what an earlier call returned           *)
(***************************************************************************)

\* the first call: a group of each strategy
RoundTripInputs ==
    {<<[name |-> "ControlGroup", recommendation_strategy |-> "standard",
        adjustment |-> EmptyDict], EmptyDict>>,
     <<[name |-> "GroupB", recommendation_strategy |-> "standard",
        adjustment |-> SampleAccommodateTable], EmptyDict>>,
     <<[name |-> "GroupB", recommendation_strategy |-> "accommodate",
        adjustment |-> SampleAccommodateTable], [risk_aversion |-> StrVal("high")]>>,
     <<[name |-> "GroupC", recommendation_strategy |-> "educate",
        adjustment |-> SampleEducateTable], [mental_accounting |-> StrVal("high")]>>}

InitRoundTrip ==
    /\ SessionDefaults
    /\ pc = "call"
    /\ config = EmptyDict
    /\ adjusted = NoDict
    /\ returned = [raised |-> "none", ref |-> NoRef]
    /\ rng_stream = NoStream
    /\ NoSimulation
    /\ \E b \in Baselines, in \in RoundTripInputs :
          /\ heap = (1 :> EqualWeights) @@ (2 :> b)
          /\ call = [initial_allocation |-> 1, recommended_allocation |-> 2,
                     experiment_group |-> in[1], behavior_answers |-> in[2]]

\* the second call: the object the first call returned passed as
\* initial_allocation, and as the baseline either that object or another one
FeedBack ==
    /\ pc = "returned"
    /\ returned.raised = "none"
    /\ pc' = "fedback"
    /\ \E baseline \in DOMAIN heap, in \in StandardInputs :
          /\ call' = [initial_allocation |-> returned.ref,
                      recommended_allocation |-> baseline,
                      experiment_group |-> in[1],
                      behavior_answers |-> in[2]]
          /\ LET r == adjust_recommendation(heap, config, returned.ref, baseline,
                                            in[1], in[2])
             IN  /\ heap' = r.heap
                 /\ adjusted' = r.adjusted
                 /\ returned' = [raised |-> r.raised, ref |-> r.ref]
    /\ UNCHANGED <<config, rng_stream, rng_pos, runs, frames, sessionVars>>

\* the call made once more with another object as initial_allocation: the
\* baseline object itself, or the object the first call made
CallWithOtherInitial ==
    /\ pc = "returned"
    /\ returned.raised = "none"
    /\ pc' = "again"
    /\ \E other \in DOMAIN heap \ {call.initial_allocation} :
          /\ call' = [call EXCEPT !.initial_allocation = other]
          /\ LET r == adjust_recommendation(heap, config, other,
                                            call.recommended_allocation,
                                            call.experiment_group, call.behavior_answers)
             IN  /\ heap' = r.heap
                 /\ adjusted' = r.adjusted
                 /\ returned' = [raised |-> r.raised, ref |-> r.ref]
    /\ UNCHANGED <<config, rng_stream, rng_pos, runs, frames, sessionVars>>

NextRoundTrip == CallAdjust \/ FeedBack \/ CallWithOtherInitial

SpecRoundTrip == InitRoundTrip /\ [][NextRoundTrip]_vars

\* the step of the second call
FedBack == pc = "returned" /\ pc' = "fedback"

\* C21 (as amended): the early return hands back its baseline. An allocation
\* returned by adjust_recommendation and passed to a second call as
\* recommended_allocation, for a group named ControlGroup or without
\* adjustment rules, is returned as it is: the same object with the same
\* weights.
C21_BaselineFedBackIsReturned ==
    [][(/\ FedBack
        /\ call'.recommended_allocation = returned.ref
        /\ \/ DictGet(call'.experiment_group, "name", "None") = "ControlGroup"
           \/ DictGet(call'.experiment_group, "adjustment", EmptyDict) = EmptyDict) =>
           /\ returned'.raised = "none"
           /\ returned'.ref = returned.ref
           /\ heap'[returned'.ref] = heap[returned.ref]]_vars

\* the normalized copy an accommodate call returned, fed back to a group
\* with strategy standard and no rules
C21_Witness ==
    /\ pc = "fedback"
    /\ call.initial_allocation = 3
    /\ call.recommended_allocation = 3
    /\ call.experiment_group = [name |-> "GroupB", recommendation_strategy |-> "standard"]
    /\ returned.ref = 3
    /\ heap[3] # heap[2]

\* C21 as stated: the output of a call passed as the initial allocation of a
\* second call with strategy standard is what the second call returns
C21_Original ==
    [][(/\ FedBack
        /\ DictGet(call'.experiment_group, "recommendation_strategy", "standard")
               = "standard") =>
           /\ returned'.raised = "none"
           /\ heap'[returned'.ref] = heap[returned.ref]]_vars

(***************************************************************************)
(* The session: the order of its stages                                    *)
(***************************************************************************)

\* C22 (as amended): a session passes through its stages in the order
\* welcome, allocation, questionnaire, behaviour quiz, personality,
\* recommendation, modification, simulation, link, survey. Every step to a
\* later page leads to the next page and is the step that completes the
\* current one, leaving what that stage records: the questionnaire is reached
\* by submitting the initial allocation, the quiz by submitting the
\* questionnaire.
C22_StagesInPageOrder ==
    [][page' > page =>
           /\ page' = page + 1
           /\ page = 1 => initial_allocation' # NoRef
           /\ page = 2 => personal_info'
           /\ page = 3 => financial_personality' # NoPersonality
           /\ page = 4 => recommended_allocation' # NoRef
           /\ page = 6 => final_allocation' # NoRef]_vars

\* a session on the questionnaire page with its initial allocation submitted
\* and no questionnaire yet
C22_Witness ==
    /\ page = 2
    /\ initial_allocation # NoRef
    /\ ~personal_info
    /\ risk_score = Zero

\* C22 as stated: the allocation-entry stage is reached only after the risk
\* questionnaire has been submitted
C22_Original == page = 1 => personal_info

\* C23: the page index is in 0..9 in every state, and every step changes it
\* by +1, by -1 (only from a page above 1, so never back to the welcome page)
\* or resets it to 0 together with the rest of the session (restart); no page
\* is skipped going forward.
C23_PageMovesByOne ==
    /\ page \in 0..9
    /\ [][/\ page' \in 0..9
          /\ page' > page => page' = page + 1
          /\ page' < page =>
                 \/ page' = page - 1 /\ page > 1
                 \/ /\ page' = 0
                    /\ page \in {7, 9}
                    /\ initial_allocation' = NoRef
                    /\ heap' = EmptyDict]_vars

\* a session stepped back as far as the back button goes
C23_Witness ==
    /\ page = 1
    /\ initial_allocation # NoRef
    /\ final_allocation # NoRef
    /\ personal_info

\* a press of a button of the link page that is no press of the link button
\* itself, with the continue button on the page
ContinueOrSkipPressed ==
    /\ page = 8
    /\ continue_shown
    /\ real_account_linked
    /\ ~continue_shown'
    /\ page' >= page
    /\ experiment_group' = experiment_group

\* C24: on the link page, once the link button has set real_account_linked,
\* a press of the continue button then shown takes the session to the survey
\* (page 9).
C24_Original == [][ContinueOrSkipPressed => page' = 9]_vars

\* C25: the result of adjust_recommendation does not depend on its
\* initial_allocation argument: a second call that differs from the first in
\* initial_allocation only returns an allocation equal to the first's.
C25_InitialAllocationIsIgnored ==
    [][(pc = "returned" /\ pc' = "again") =>
           /\ call'.initial_allocation # call.initial_allocation
           /\ returned'.raised = returned.raised
           /\ heap'[returned'.ref] = heap[returned.ref]]_vars

\* a second call that adjusts, with the baseline object itself as the
\* initial allocation where the first call had another allocation
C25_Witness ==
    /\ pc = "again"
    /\ call.initial_allocation = call.recommended_allocation
    /\ heap[1] # heap[2]
    /\ ~ReturnsBaselineItself(call.experiment_group)
    /\ heap[returned.ref] # heap[2]

(***************************************************************************)
(* adjust_recommendation: the blend of the educate strategy                *)
(***************************************************************************)

\* a call in which the mental-accounting rule blended the weights and the
\* loss-aversion rule did not apply
BlendedOnly ==
    /\ Returned
    /\ ~Early
    /\ Strategy = "educate"
    /\ "mental_accounting_high" \in DOMAIN Table
    /\ "diversify_up" \in DOMAIN Table["mental_accounting_high"]
    /\ AnswerIsHigh(call.behavior_answers, "mental_accounting")
    /\ ~("loss_aversion_high" \in DOMAIN Table
         /\ AnswerIsHigh(call.behavior_answers, "loss_aversion"))

\* C26: the mental-accounting blend of the educate strategy preserves the
\* total weight: for every allocation and every blend factor the blended
\* weights sum to what the old weights sum to, so for a baseline summing to 1
\* the normalization that follows leaves the blended weights as they are.
C26_BlendKeepsTotal ==
    BlendedOnly =>
        /\ DictSum(adjusted) = DictSum(Baseline)
        /\ DictSum(Baseline) = One => heap[returned.ref] = adjusted

\* a baseline summing to 1 that the blend changed, and one summing to less
C26_Witness ==
    /\ BlendedOnly
    /\ adjusted # Baseline
    /\ heap[returned.ref] = adjusted
    /\ DictSum(Baseline) = One
    /\ Cardinality(DOMAIN Baseline) = 2

(***************************************************************************)
(* calculate_metrics: the maximum drawdown against the trajectory itself   *)
(***************************************************************************)

\* the declines of a trajectory from each of its days to each later day, as
\* fractions of the earlier value
Declines(simulation) ==
    {RDiv(RSub(simulation[d[1]], simulation[d[2]]), simulation[d[1]]) :
        d \in {e \in (DOMAIN simulation) \X (DOMAIN simulation) : e[1] <= e[2]}}

\* the largest of them
LargestDecline(simulation) ==
    CHOOSE m \in Declines(simulation) : \A d \in Declines(simulation) : RLe(d, m)

\* C27: the maximum drawdown reported for a trajectory is the largest
\* peak-to-trough decline over the whole trajectory, day 0 included, in
\* percent: the maximum over all i <= j of
\* (trajectory[i] - trajectory[j]) / trajectory[i]; a fall below the initial
\* investment on day 1 is counted.
C27_Original ==
    Returned =>
        returned.max_drawdown = RMul(LargestDecline(call.simulation), Int2Rat(100))

(***************************************************************************)
(* The session: what each page finds                                       *)
(***************************************************************************)

\* the weights of a stored allocation sum to 1 within 0.0001
SumsToOne(ref) ==
    RLe(RAbs(RSub(DictSum(heap[ref]), One)), Rat(1, 10000))

\* C28: after any sequence of page actions, back navigation, changes of the
\* experiment group and restarts every page finds the session data it reads:
\* from page 2 on initial_allocation is set and its weights sum to 1 within
\* 0.0001, from page 4 on financial_personality is set, from page 5 on
\* recommended_allocation is set, from page 7 on final_allocation is set and
\* its weights sum to 1 within 0.0001.
C28_PagesFindTheirData ==
    /\ page >= 2 => initial_allocation # NoRef /\ SumsToOne(initial_allocation)
    /\ page >= 4 => financial_personality # NoPersonality
    /\ page >= 5 => recommended_allocation # NoRef
    /\ page >= 7 => final_allocation # NoRef /\ SumsToOne(final_allocation)

\* the survey page of a session of the educate group whose final allocation
\* differs from its initial one
C28_Witness ==
    /\ page = 9
    /\ experiment_group = "educate"
    /\ initial_allocation # NoRef
    /\ recommended_allocation # NoRef
    /\ final_allocation # NoRef
    /\ financial_personality # NoPersonality
    /\ heap[final_allocation] # heap[initial_allocation]

(***************************************************************************)
(* get_risk_category against get_risk_recommendation                       *)
(***************************************************************************)

\* the display name of the band whose preset get_risk_recommendation returns
NameOfPresetBand ==
    CategoryInfo(DictGet(config, "risk_categories", DEFAULT_RISK_CATEGORIES),
                 RiskBand(call.risk_score)).name

\* C29: the naming of the risk bands and their recommendation agree: for
\* every risk score in [0, 100], the scores 20, 40, 60, 80 and 100 among them,
\* get_risk_category returns the display name of the band whose preset
\* get_risk_recommendation returns.
C29_Original == Returned => returned.category = NameOfPresetBand

\* what holds: the two agree for every score when the configuration names no
\* categories, and for every score below 100 when it names the five bands
\* with the bounds 20, 40, 60, 80 and 100
C29_AgreeBelowFallThrough ==
    (Returned /\ ("risk_categories" \notin DOMAIN config
                     \/ RLt(call.risk_score, Int2Rat(100)))) =>
        returned.category = NameOfPresetBand

(***************************************************************************)
(* adjust_recommendation: the keys and the range of the returned weights   *)
(***************************************************************************)

\* every weight of an allocation within [0, 1]
WeightsInUnitRange(allocation) ==
    \A asset \in DOMAIN allocation :
        RLe(Zero, allocation[asset]) /\ RLe(allocation[asset], One)

\* C30: for every baseline with non-negative weights and a positive sum,
\* every strategy and every rule table with fractions in [0, 1], the
\* allocation returned by adjust_recommendation has exactly the baseline's
\* asset keys, none added from the risk and safe lists and none removed, and
\* every weight within [0, 1].
C30_Original ==
    Returned =>
        /\ DOMAIN heap[returned.ref] = DOMAIN Baseline
        /\ WeightsInUnitRange(heap[returned.ref])

\* C30 (as amended): the returned allocation has exactly the baseline's asset
\* keys; every weight is within [0, 1] when the group is not named
\* ControlGroup and has adjustment rules; otherwise the baseline is returned
\* as it is, its weights within [0, 1] only if they were.
C30_KeysKeptWeightsInRange ==
    Returned =>
        /\ returned.raised = "none"
        /\ DOMAIN heap[returned.ref] = DOMAIN Baseline
        /\ ~Early => WeightsInUnitRange(heap[returned.ref])
        /\ Early => heap[returned.ref] = Baseline

\* an accommodate call that shifted a baseline with a weight above 1, its
\* list of risk assets naming an asset the baseline lacks
C30_Witness ==
    /\ Returned
    /\ ~Early
    /\ Strategy = "accommodate"
    /\ adjusted # Baseline
    /\ \E asset \in DOMAIN Baseline : RLt(One, Baseline[asset])
    /\ \E asset \in Range(get_asset_risk_categories(config)["RiskAssets"]) :
           asset \notin DOMAIN Baseline
    /\ WeightsInUnitRange(heap[returned.ref])
====
